---------------------------- MODULE Spec2Model ----------------------------
(***************************************************************************)
(* Deployment orchestration and subscription lifecycle of the deploy       *)
(* backend: DeploymentService, ClawdBotService, SubdomainGenerator, the    *)
(* deploy entry points (HTTP route, WebSocket handler) and the             *)
(* SubscriptionMonitor, over the Mongoose models Deployment, User and      *)
(* Subscription and the remote host reached through SSHManager.            *)
(*                                                                         *)
(* Time is counted in days.  The remote host is part of the state: the     *)
(* PM2 process table, the nginx sites and whether the SSH channel can be   *)
(* established.                                                            *)
(***************************************************************************)
EXTENDS Integers, Sequences, FiniteSets, TLC

(***************************************************************************)
(* Bounds of the model                                                     *)
(***************************************************************************)
MaxDeployments == 2      \* deployment records of the lifecycle scenario
MaxTime == 8             \* last day the clock reaches
TickDays == 4            \* days between two observations of the clock
SubscriptionEnd == 2     \* current_end of the paid grant of the scenario
TokenCount == 2          \* distinct tokens generate() can draw, per length
PortCount == 3           \* ports of the allocation range that are modelled
MaxScans == 2            \* scans one findFreePort call makes at most
MaxLines == 2            \* lines of process output one log scan reads
MaxExitCode == 2         \* largest exit code of a remote command that is modelled
CallerCount == 2         \* operations that use the channel at the same time
MaxOpens == 2            \* connections ssh.connect establishes at most
MaxLogs == 3             \* messages emitted for the deployment under observation
MaxClock == 2            \* milliseconds the clock advances while they are emitted
MaxListed == 2           \* ports one socket inspection lists at most
MaxRequests == 2         \* concurrent deploy requests followed

(***************************************************************************)
(* Program constants                                                       *)
(***************************************************************************)
GRACE_PERIOD_DAYS == 7

NULL == "null"

\* A Date path that is not set
NoDate == -1

\* A port that is null / not detected
NoPort == 0

\* SubdomainGenerator: this.length, the fallback length and maxAttempts
SubdomainLength == 6
FallbackLength == 8
MaxAttempts == 100

\* A subdomain is <<length, k>>: the k-th token of that length.
NoSubdomain == <<0, 0>>

\* PortManager.minPort; the lookup of PORT in the PM2 environment accepts
\* 3000..9000.
MinPort == 3100
EnvPortMin == 3000
EnvPortMax == 9000
PortRange == MinPort..(MinPort + PortCount - 1)

\* userSchema.max_deployments default; PLANS.starter.limits; the limits of a
\* user without a grant
DefaultMaxDeployments == 5
StarterLimits == [max_frontend |-> 1, max_backend |-> 1]
NoLimits == [max_frontend |-> 0, max_backend |-> 0]

Users == {"u1", "u2"}
Roles == {"frontend", "backend"}
DepIds == 1..MaxDeployments
Handles == DepIds \X Roles

\* deploymentLogSchema.log_type enum
LogTypes == {"info", "error", "success", "warning"}

\* What a log entry's message is about, as far as the model tells messages
\* apart: the difference between allocated and actual port, or anything else
LogMessages == {"port mismatch", "other"}

\* deploymentSchema.status enum, plus the value the monitor writes
SchemaStatuses == {"deploying", "deployed", "failed", "stopped"}

\* The paths of deploymentSchema that the model carries.  The schema has no
\* suspended_at, suspension_reason or delete_scheduled_at path.
DeploymentSchemaPaths ==
    {"user_id", "status", "subdomain", "frontend_repo", "backend_repo",
     "frontend_port", "backend_port",
     "frontend_allocated_port", "backend_allocated_port",
     "frontend_actual_port", "backend_actual_port",
     "frontend_url", "backend_url",
     "pm2_frontend_name", "pm2_backend_name"}

VARIABLES
    now,            \* the clock, in days
    users,          \* User collection: current_plan, subscription_status
    subscriptions,  \* Subscription collection: one grant per user
    deployments,    \* Deployment collection, keyed by _id
    pm2,            \* remote PM2 table: status of each role process
    channelUp,      \* whether an SSH connection can be established
    strictQuery,    \* Mongoose strictQuery setting of the build
    sentDeadline,   \* delete_scheduled_at the monitor computed at suspension
    lastCall,       \* value returned by the stop/restart call of this step
    sweepLog,       \* what the monitor sweep of this step printed
    nginx,          \* remote nginx: upstream port of each enabled site
    logs,           \* DeploymentLog collection:
                    \*   <<deployment_id, log_type, message>>
    clawdBotImpl,   \* which ClawdBotService module './ClawdBotService' names
    requests,       \* the deploy requests and how far each has got
    roleCall,       \* arguments and remote observations of one role deploy
    roleResult,     \* what ClawdBotService.deploy returned for roleCall
    callArgs,       \* arguments and remote answers of one observed call
    callResult,     \* what the observed call returned
    ssh,            \* the SSHManager instance and its connection
    callers         \* the operations that call the SSHManager

lifecycleVars == <<now, users, subscriptions, deployments, pm2, channelUp,
                   strictQuery, sentDeadline, lastCall, sweepLog, nginx,
                   logs>>

deployVars == <<clawdBotImpl, requests>>

roleVars == <<roleCall, roleResult>>

fnVars == <<callArgs, callResult>>

channelVars == <<ssh, callers>>

callVars == <<roleVars, fnVars, channelVars>>

vars == <<lifecycleVars, deployVars, callVars>>

(***************************************************************************)
(* Mongoose                                                                *)
(***************************************************************************)
FindByIdAndUpdate_unsaved(doc, update) == doc

\* Model.findByIdAndUpdate(id, update) under the schema's default strict
\* mode: paths that are not in the schema are dropped from the update; no
\* validator runs, so a status outside the enum is stored as given.
FindByIdAndUpdate(doc, update) ==
    [f \in DOMAIN doc |->
        IF f \in DOMAIN update /\ f \in DeploymentSchemaPaths
        THEN update[f] ELSE doc[f]]

\* Deployment.updateStatus(id, status)
UpdateStatus(deps, id, status) ==
    IF id \in DOMAIN deps
    THEN [deps EXCEPT ![id] = FindByIdAndUpdate(deps[id], [status |-> status])]
    ELSE deps

\* Deployment.find({ user_id }) in natural (insertion) order
RECURSIVE SortedSeq(_)
SortedSeq(S) ==
    IF S = {} THEN <<>>
    ELSE LET m == CHOOSE x \in S : \A y \in S : x <= y
         IN  <<m>> \o SortedSeq(S \ {m})

FindByUser(deps, u) ==
    SortedSeq({d \in DOMAIN deps : deps[d].user_id = u})

(***************************************************************************)
(* SSHManager and ClawdBotService: supervisor calls                        *)
(***************************************************************************)
\* pm2_<role>_name of a record
Pm2Name(doc, role) ==
    IF role = "frontend" THEN doc.pm2_frontend_name ELSE doc.pm2_backend_name

PresentRoles(doc) == {r \in Roles : Pm2Name(doc, r) # NULL}

\* The port of a role in a record
PortOf(doc, role) ==
    IF role = "frontend" THEN doc.frontend_port ELSE doc.backend_port

\* SSHManager.stopPM2Process / restartPM2Process wrapped by
\* ClawdBotService.stopDeployment / restartDeployment: success is the exit
\* code of `pm2 stop|restart <name>`; a connection failure is caught and
\* reported as success=false.
SupervisorCall(procs, up, h) == up /\ procs[h] # "missing"

AllSuccess_some(results) == \E r \in DOMAIN results : results[r]

\* results.every(r => r.success)
AllSuccess(results) == \A r \in DOMAIN results : results[r]

(***************************************************************************)
(* ClawdBotService.deploy: one role                                        *)
(*                                                                         *)
(* The repository holds two ClawdBotService modules.  "current" declares   *)
(* deploy(deploymentId, repoUrl, port, domain, appName, envVars, onLog),   *)
(* "earlier" declares deploy(deploymentId, repoUrl, port, domain, appName, *)
(* onLog).  What the remote host answers during one call is `env`.         *)
(***************************************************************************)
ClawdBotImpls == {"current", "earlier"}

\* What a caller hands over in the sixth position: an object of environment
\* variables, or a log callback.
SixthArgs == {"envVars", "onLog"}

Pm2Statuses == {"online", "errored", "missing"}

\* What `pm2 jlist | jq ... .pm2_env.PORT` prints, as parseInt reads it:
\* NoPort for an empty, 'null' or non-numeric output and for a failed command.
EnvPortOutputs == {NoPort, 80} \cup PortRange

\* The remote observations of one deploy call
RoleEnvs ==
    [channel : BOOLEAN,             \* ensureConnection succeeds
     rpc     : {"SUCCESS", "FAILED"},  \* first line the deployer prints
     pm2     : Pm2Statuses,         \* status of the process after the wait
     detect1 : {NoPort} \cup PortRange, \* detectActualPort, first call
     detect2 : {NoPort} \cup PortRange, \* detectActualPort, the retry
     envPort : EnvPortOutputs,
     verify  : BOOLEAN]             \* verifyDeployment(...).success

NoNote == "none"
NoteDetectionPending == "Port detection pending - using allocated port"
NoteNotYetActive == "Port not yet active - app may still be initializing"

\* return { success: false, error, allocatedPort, actualPort, ... }
RoleFailure(error, allocated) ==
    [success |-> FALSE, error |-> error, allocatedPort |-> allocated,
     actualPort |-> NoPort, port |-> NoPort, portChanged |-> FALSE,
     note |-> NoNote]

\* return { success: true, allocatedPort: port, actualPort, port: actualPort,
\*          portChanged: actualPort !== port, note }
RoleSuccess(allocated, actual, note) ==
    [success |-> TRUE, error |-> "none", allocatedPort |-> allocated,
     actualPort |-> actual, port |-> actual,
     portChanged |-> (actual # allocated), note |-> note]

\* if (!isNaN(envPort) && envPort >= 3000 && envPort <= 9000) actualPort = envPort
EnvPortLookup(env) ==
    IF env.envPort # NoPort /\ env.envPort >= EnvPortMin /\ env.envPort <= EnvPortMax
    THEN env.envPort ELSE NoPort

DetectionFallback_fail(port) ==
    RoleFailure("Failed to detect application listening port", port)

\* if (!actualPort) return { success: true, actualPort: port, port,
\*                           portChanged: false, note: 'Port detection pending...' }
DetectionFallback(port) == RoleSuccess(port, port, NoteDetectionPending)

\* ClawdBotService.deploy of the current module
CurrentDeploy(envVars, port, env) ==
    IF ~env.channel THEN RoleFailure("connection", NoPort)
    ELSE IF envVars = "onLog"
    THEN \* JSON.stringify(envVars) is undefined for a function: .replace throws
         RoleFailure("TypeError", NoPort)
    ELSE IF env.rpc # "SUCCESS" THEN RoleFailure("Deployment failed", NoPort)
    ELSE IF env.pm2 # "online"
    THEN RoleFailure("Application failed to start", port)
    ELSE LET first == env.detect1
             second == IF first = NoPort THEN env.detect2 ELSE first
             actualPort == IF second = NoPort THEN EnvPortLookup(env) ELSE second
         IN  IF actualPort = NoPort THEN DetectionFallback(port)
             ELSE IF ~env.verify
             THEN RoleSuccess(port, actualPort, NoteNotYetActive)
             ELSE RoleSuccess(port, actualPort, NoNote)

\* ClawdBotService.deploy of the earlier module: one detection, no check of
\* the PM2 status, and a failed detection or verification fails the role.
EarlierDeploy(port, env) ==
    IF ~env.channel THEN RoleFailure("connection", NoPort)
    ELSE IF env.rpc # "SUCCESS" THEN RoleFailure("Deployment failed", NoPort)
    ELSE IF env.detect1 = NoPort
    THEN RoleFailure("Failed to detect application listening port", port)
    ELSE IF ~env.verify
    THEN [RoleFailure("Deployment verification failed", port)
            EXCEPT !.actualPort = env.detect1]
    ELSE RoleSuccess(port, env.detect1, NoNote)

\* this.clawdBot.deploy(id, repo, port, domain, appName, sixth)
ClawdBotDeploy(impl, sixth, port, env) ==
    IF impl = "current" THEN CurrentDeploy(sixth, port, env)
    ELSE EarlierDeploy(port, env)

\* logMessage(...) of the PORT MISMATCH block: if (actualPort !== port)
MismatchLogs(port, actualPort) ==
    IF actualPort # port THEN {<<"warning", "port mismatch">>} ELSE {}

\* The <<log_type, message>> entries logMessage of the current deploy stores
\* through DeploymentLog.create
CurrentLogs(envVars, port, env) ==
    {<<"info", "other">>} \cup
    IF ~env.channel THEN {<<"error", "other">>}
    ELSE {<<"success", "other">>} \cup
         IF envVars = "onLog" \/ env.rpc # "SUCCESS" \/ env.pm2 # "online"
         THEN {<<"error", "other">>}
         ELSE LET r == CurrentDeploy(envVars, port, env)
              IN  IF r.note = NoteDetectionPending
                  THEN {<<"warning", "other">>}
                  ELSE MismatchLogs(port, r.actualPort)
                       \cup (IF ~env.verify THEN {<<"warning", "other">>}
                             ELSE {})

\* The same for the earlier deploy
EarlierLogs(port, env) ==
    {<<"info", "other">>} \cup
    IF ~env.channel THEN {<<"error", "other">>}
    ELSE {<<"success", "other">>} \cup
         IF env.rpc # "SUCCESS" \/ env.detect1 = NoPort
         THEN {<<"error", "other">>}
         ELSE MismatchLogs(port, env.detect1)
              \cup (IF ~env.verify THEN {<<"warning", "other">>} ELSE {})

ClawdBotLogs(impl, sixth, port, env) ==
    IF impl = "current" THEN CurrentLogs(sixth, port, env)
    ELSE EarlierLogs(port, env)

(***************************************************************************)
(* DeploymentService: stop, restart, delete                                *)
(***************************************************************************)
\* Per-role results of one stop or restart call, in the order frontend,
\* backend: one entry per role whose pm2 name is set.
RoleResults(deps, procs, up, d) ==
    [r \in PresentRoles(deps[d]) |-> SupervisorCall(procs, up, <<d, r>>)]

\* The PM2 table after the supervisor command `to` ran for the roles of d.
ProcsAfter(deps, procs, up, d, to) ==
    [h \in Handles |->
        IF h[1] = d /\ h[2] \in PresentRoles(deps[d])
           /\ SupervisorCall(procs, up, h)
        THEN to ELSE procs[h]]

\* The DeploymentLog entries ClawdBotService.stopDeployment,
\* restartDeployment and deleteDeployment write for the roles of d: info
\* before the supervisor command, then success or error by its exit code.
\* When the connection fails the catch block writes no entry.
CallLogs(d, results, up) ==
    {<<d, "info", "other">> : r \in DOMAIN results}
    \cup {<<d, "success", "other">> :
              r \in {x \in DOMAIN results : results[x]}}
    \cup {<<d, "error", "other">> :
              r \in {x \in DOMAIN results : ~results[x] /\ up[x]}}

\* <<log_type, message>> pairs as log entries of deployment d
LogsOf(d, entries) == {<<d, e[1], e[2]>> : e \in entries}

\* The connection is in the same state for every command of one handler
StableChannel(up) ==
    [proc |-> [r \in Roles |-> up], site |-> [r \in Roles |-> up],
     purge |-> TRUE]

\* DeploymentService.stopDeployment(deploymentId), for an existing record
StopOp(deps, procs, up, d) ==
    LET results == RoleResults(deps, procs, up, d)
        allSuccess == AllSuccess(results)
    IN  [deps  |-> IF allSuccess THEN UpdateStatus(deps, d, "stopped") ELSE deps,
         procs |-> ProcsAfter(deps, procs, up, d, "stopped"),
         logged |-> CallLogs(d, results, StableChannel(up).proc),
         ret   |-> [op |-> "stop", id |-> d, success |-> allSuccess,
                    results |-> results]]

\* DeploymentService.restartDeployment(deploymentId), for an existing record
RestartOp(deps, procs, up, d) ==
    LET results == RoleResults(deps, procs, up, d)
        allSuccess == AllSuccess(results)
    IN  [deps  |-> IF allSuccess THEN UpdateStatus(deps, d, "deployed") ELSE deps,
         procs |-> ProcsAfter(deps, procs, up, d, "online"),
         logged |-> CallLogs(d, results, StableChannel(up).proc),
         ret   |-> [op |-> "restart", id |-> d, success |-> allSuccess,
                    results |-> results]]

\* The roles whose site deleteDeployment removes: the frontend site of the
\* subdomain and, if the record has a backend_repo, the backend site.
SiteRoles(doc) ==
    {"frontend"} \cup (IF doc.backend_repo # NULL THEN {"backend"} ELSE {})

SitesOf(doc) == {<<doc.subdomain, r>> : r \in SiteRoles(doc)}

\* What can go wrong during one deleteDeployment: for each role whether a
\* connection is there for the process teardown (proc) and for the removal
\* of the site (site), and whether DeploymentLog.deleteByDeploymentId
\* resolves (purge).
DeleteEnvs ==
    [proc : [Roles -> BOOLEAN], site : [Roles -> BOOLEAN], purge : BOOLEAN]

\* The sites without those of `names`
WithoutSites(sites, names) ==
    [s \in DOMAIN sites \ names |-> sites[s]]

\* DeploymentService.deleteDeployment(deploymentId), for an existing record.
\* Step 1, per role with a PM2 name: ClawdBotService.deleteDeployment, which
\* never throws; the process and its directory go if `pm2 delete` exits 0.
\* Step 2: deleteSubdomainConfig for the frontend site and then, if there is
\* a backend_repo, for the backend site; it rethrows a connection failure,
\* which ends deleteDeployment.  Step 3 (releasePort) cannot fail.  Step 4
\* purges the log entries, step 5 removes the record.  `attempted` lists
\* the steps that were started.
DeleteOp(deps, procs, sites, lg, env, d) ==
    LET doc == deps[d]
        results == [r \in PresentRoles(doc) |->
                       SupervisorCall(procs, env.proc[r], <<d, r>>)]
        procs2 == [h \in Handles |->
                      IF h[1] = d /\ h[2] \in DOMAIN results /\ results[h[2]]
                      THEN "missing" ELSE procs[h]]
        lg2 == lg \cup CallLogs(d, results, env.proc)
        teardown == {<<"process", r>> : r \in PresentRoles(doc)}
        frontSite == {<<doc.subdomain, "frontend">>}
        stay(sites2, steps) ==
            [deps |-> deps, procs |-> procs2, sites |-> sites2, logs |-> lg2,
             threw |-> TRUE, attempted |-> teardown \cup steps]
    IN  IF ~env.site["frontend"]
        THEN stay(sites, {<<"site", "frontend">>})
        ELSE IF "backend" \in SiteRoles(doc) /\ ~env.site["backend"]
        THEN stay(WithoutSites(sites, frontSite),
                  {<<"site", "frontend">>, <<"site", "backend">>})
        ELSE IF ~env.purge
        THEN stay(WithoutSites(sites, SitesOf(doc)),
                  {<<"site", r>> : r \in SiteRoles(doc)}
                      \cup {<<"ports", "release">>, <<"logs", "purge">>})
        ELSE [deps |-> [x \in DOMAIN deps \ {d} |-> deps[x]],
              procs |-> procs2,
              sites |-> WithoutSites(sites, SitesOf(doc)),
              logs |-> {e \in lg2 : e[1] # d},
              threw |-> FALSE,
              attempted |-> teardown
                            \cup {<<"site", r>> : r \in SiteRoles(doc)}
                            \cup {<<"ports", "release">>, <<"logs", "purge">>,
                                   <<"record", "delete">>}]

(***************************************************************************)
(* SubscriptionMonitor                                                     *)
(***************************************************************************)
\* Deployment.find({ user_id, status: 'suspended',
\*                   delete_scheduled_at: { $lt: new Date() } }).
\* delete_scheduled_at is not a schema path: with strictQuery on, Mongoose
\* drops the condition from the filter; with strictQuery off the condition
\* is sent to the store as written.
ExpiredQuery(deps, u, t, strict) ==
    SortedSeq({d \in DOMAIN deps :
        /\ deps[d].user_id = u
        /\ deps[d].status = "suspended"
        /\ \/ strict
           \/ /\ deps[d].delete_scheduled_at # NoDate
              /\ deps[d].delete_scheduled_at < t})

\* SubscriptionMonitor.deleteExpiredDeployments(userId): the loop body for
\* the ids of `todo`, threading the store, the PM2 table and the log.
RECURSIVE DeleteExpiredLoop(_, _, _)
DeleteExpiredLoop(S, todo, up) ==
    IF todo = <<>> THEN S
    ELSE LET d == Head(todo)
             r == DeleteOp(S.deps, S.procs, S.sites, S.logs,
                           StableChannel(up), d)
         IN  DeleteExpiredLoop(
                 [S EXCEPT !.deps = r.deps, !.procs = r.procs,
                           !.sites = r.sites, !.logs = r.logs,
                           !.deadline = IF r.threw THEN @
                                        ELSE [@ EXCEPT ![d] = NoDate],
                           !.deleting = @ \cup {d}],
                 Tail(todo), up)

DeleteExpiredDeployments(S, u, t, strict, up) ==
    DeleteExpiredLoop(S, ExpiredQuery(S.deps, u, t, strict), up)

\* The update document of enforceSubscriptionLimits
SuspendUpdate(user, t) ==
    [status |-> "suspended",
     suspended_at |-> t,
     suspension_reason |-> IF user.subscription_status = "expired"
                           THEN "subscription_expired"
                           ELSE "plan_limit_exceeded",
     delete_scheduled_at |-> t + GRACE_PERIOD_DAYS]

\* if (i >= allowedDeployments || (expired && current_plan !== 'free'))
BeyondLimit(user, i) ==
    LET allowedDeployments == IF user.current_plan = "free" THEN 1 ELSE 0
    IN  \/ i >= allowedDeployments
        \/ user.subscription_status = "expired" /\ user.current_plan # "free"

NeedsSuspend_again(doc) == doc.status # "stopped"

\* if (deployment.status !== 'stopped' && deployment.status !== 'suspended')
NeedsSuspend(doc) == doc.status # "stopped" /\ doc.status # "suspended"

\* The for loop of enforceSubscriptionLimits over the snapshot `list`,
\* from index i on.
RECURSIVE EnforceLoop(_, _, _, _, _, _)
EnforceLoop(S, user, list, i, t, up) ==
    IF i >= Len(list) THEN S
    ELSE LET d == list[i + 1]
             stopped == StopOp(S.deps, S.procs, up, d)
             S2 == IF BeyondLimit(user, i) /\ NeedsSuspend(S.deps[d])
                   THEN [S EXCEPT
                          !.deps = [stopped.deps EXCEPT ![d] =
                                      FindByIdAndUpdate(@, SuspendUpdate(user, t))],
                          !.procs = stopped.procs,
                          !.logs = @ \cup stopped.logged,
                          !.deadline = [@ EXCEPT ![d] =
                                      SuspendUpdate(user, t).delete_scheduled_at],
                          !.sent = [x \in DOMAIN S.sent \cup {d} |->
                                      IF x = d
                                      THEN SuspendUpdate(user, t).delete_scheduled_at
                                      ELSE S.sent[x]]]
                   ELSE S
         IN  EnforceLoop(S2, user, list, i + 1, t, up)

\* SubscriptionMonitor.enforceSubscriptionLimits(user)
EnforceSubscriptionLimits(S, u, user, t, strict, up) ==
    LET list == FindByUser(S.deps, u)
    IN  IF list = <<>> THEN S
        ELSE DeleteExpiredDeployments(
                 EnforceLoop([S EXCEPT !.enforced = @ \cup {u}], user, list, 0, t, up),
                 u, t, strict, up)

\* User.find / Subscription.find return documents in insertion order
UserOrder == <<"u1", "u2">>

\* User.find({ $or: [{ subscription_status: 'expired' },
\*                   { subscription_status: 'none', current_plan: 'free' }] })
SelectedUser(user) ==
    \/ user.subscription_status = "expired"
    \/ user.subscription_status = "none" /\ user.current_plan = "free"

\* Subscription.find({ status: 'active', current_end: { $lt: new Date() } })
ExpiredGrant(sub, t) == sub.status = "active" /\ sub.current_end < t

\* First loop of checkExpiredSubscriptions, over the users selected when the
\* sweep started (`snapshot`).
RECURSIVE SweepUsers(_, _, _, _, _, _)
SweepUsers(S, snapshot, i, t, strict, up) ==
    IF i > Len(UserOrder) THEN S
    ELSE LET u == UserOrder[i]
         IN  SweepUsers(
                 IF SelectedUser(snapshot[u])
                 THEN EnforceSubscriptionLimits(S, u, snapshot[u], t, strict, up)
                 ELSE S,
                 snapshot, i + 1, t, strict, up)

\* Second loop of checkExpiredSubscriptions, over the active grants whose
\* current_end has passed when the loop starts (`grants`).  The updates of
\* the grant and of the user are not inside a try of their own: for a user
\* in `broken` Subscription.updateStatus rejects, and the catch block of
\* checkExpiredSubscriptions ends the loop.
RECURSIVE SweepGrants(_, _, _, _, _, _, _)
SweepGrants(S, grants, i, t, strict, up, broken) ==
    IF i > Len(UserOrder) THEN S
    ELSE LET u == UserOrder[i]
             S2 == [S EXCEPT !.subs[u].status = "expired",
                             !.users[u].subscription_status = "expired"]
         IN  IF ExpiredGrant(grants[u], t) /\ u \in broken THEN S
             ELSE SweepGrants(
                 IF ExpiredGrant(grants[u], t)
                 THEN EnforceSubscriptionLimits(S2, u, S2.users[u], t, strict, up)
                 ELSE S,
                 grants, i + 1, t, strict, up, broken)

\* SubscriptionMonitor.checkExpiredSubscriptions()
CheckExpiredSubscriptions(S, t, strict, up, broken) ==
    LET S1 == SweepUsers(S, S.users, 1, t, strict, up)
    IN  SweepGrants(S1, S1.subs, 1, t, strict, up, broken)

(***************************************************************************)
(* Lifecycle scenario: records that deploy() completed earlier, the owner's *)
(* stop / restart / delete requests, the monitor's sweeps and the clock.   *)
(***************************************************************************)
NoCall == [op |-> "none", id |-> 0, success |-> FALSE, results |-> <<>>]

\* enforced: users whose limits were enforced; sent: the delete_scheduled_at
\* handed to findByIdAndUpdate for each deployment suspended in the sweep;
\* deleting: deployments handed to deleteDeployment.
NoSweep == [ran |-> FALSE, enforced |-> {}, sent |-> <<>>, deleting |-> {}]

\* The record Deployment.create stores for a deploy request
NewDeployment(u, subdomain, twoRoles) ==
    [user_id |-> u,
     status |-> "deploying",
     subdomain |-> subdomain,
     frontend_repo |-> "repo",
     backend_repo |-> IF twoRoles THEN "repo" ELSE NULL,
     frontend_port |-> NoPort,
     backend_port |-> NoPort,
     frontend_allocated_port |-> NoPort,
     backend_allocated_port |-> NoPort,
     frontend_actual_port |-> NoPort,
     backend_actual_port |-> NoPort,
     frontend_url |-> NULL,
     backend_url |-> NULL,
     pm2_frontend_name |-> NULL,
     pm2_backend_name |-> NULL,
     delete_scheduled_at |-> NoDate]

\* A record as deploy() leaves it: the ports and pm2 names of the requested
\* roles are set and the status is deployed or failed.  In a failed
\* two-role record the frontend went through and the backend did not; a
\* failed one-role record has no url.  Each application bound the port it
\* was allocated; a role that did not go through has no actual port.
DeploymentDoc(d, u, twoRoles, status) ==
    [NewDeployment(u, <<SubdomainLength, d>>, twoRoles) EXCEPT
        !.status = status,
        !.frontend_port = MinPort + 2 * (d - 1),
        !.backend_port = IF twoRoles THEN MinPort + 2 * (d - 1) + 1 ELSE NoPort,
        !.frontend_allocated_port = MinPort + 2 * (d - 1),
        !.backend_allocated_port =
            IF twoRoles THEN MinPort + 2 * (d - 1) + 1 ELSE NoPort,
        !.frontend_actual_port =
            IF status = "deployed" \/ twoRoles THEN MinPort + 2 * (d - 1)
            ELSE NoPort,
        !.backend_actual_port =
            IF status = "deployed" /\ twoRoles THEN MinPort + 2 * (d - 1) + 1
            ELSE NoPort,
        !.frontend_url = IF status = "deployed" \/ twoRoles THEN "url" ELSE NULL,
        !.backend_url = IF status = "deployed" /\ twoRoles THEN "url" ELSE NULL,
        !.pm2_frontend_name = "set",
        !.pm2_backend_name = IF twoRoles THEN "set" ELSE NULL]

\* The enabled sites that go with the records: one per role that has a
\* url, with the role's port as upstream
InitialSites(deps) ==
    LET urlOf(doc, r) == IF r = "frontend" THEN doc.frontend_url
                         ELSE doc.backend_url
        hs == {h \in (DOMAIN deps) \X Roles : urlOf(deps[h[1]], h[2]) # NULL}
        ownerOf(site) == CHOOSE h \in hs :
                            site = <<deps[h[1]].subdomain, h[2]>>
    IN  [site \in {<<deps[h[1]].subdomain, h[2]>> : h \in hs} |->
            PortOf(deps[ownerOf(site)[1]], site[2])]

\* The log entries a record has gathered by the time the scenario starts:
\* at least one of every log_type
InitialLogs(deps) == (DOMAIN deps) \X LogTypes \X {"other"}

\* A deploy request that has not been received
NoRequest ==
    [pc |-> "idle", entry |-> "none", user |-> NULL, existing |-> {},
     generated |-> NoSubdomain, overQuota |-> FALSE,
     frontend |-> "none", backend |-> "none", error |-> "none"]

\* A request whose handler has ended: its locals are gone; what remains is
\* how deploy() ended and, if Deployment.create threw, the subdomain that
\* generateUnique had returned.
Done(error, generated) ==
    [NoRequest EXCEPT !.pc = "done", !.error = error, !.generated = generated]

\* No role deploy under observation
NoRoleCall == [impl |-> "none"]
NoRoleResult == [success |-> FALSE, error |-> "not called"]

\* No other call under observation
NoCallArgs == [fn |-> "none"]
NoCallResult == [fn |-> "none"]

\* The operations that hold the SSHManager instance of getSSHManager()
Callers == 1..CallerCount

\* new SSHManager(): this.connected = false and no connection; `opened`
\* counts the connections ssh.connect has established
NewSSHManager == [connected |-> FALSE, link |-> "none", opened |-> 0]

\* An operation that is not inside a call of the SSHManager
IdleCaller == [pc |-> "idle", op |-> "none", last |-> "none"]

IdleChannel ==
    /\ ssh = NewSSHManager
    /\ callers = [c \in Callers |-> IdleCaller]

\* The PM2 status that goes with a record: a failed deploy may have left a
\* role without a process.
InitialProcs(deps, lost) ==
    [h \in Handles |->
        IF Pm2Name(deps[h[1]], h[2]) = NULL THEN "missing"
        ELSE IF deps[h[1]].status = "stopped" THEN "stopped"
        ELSE IF deps[h[1]].status = "failed" /\ h \in lost THEN "missing"
        ELSE "online"]

\* u1 registered and never paid; u2 bought the starter plan: the payment
\* verification stored an active grant with the plan's limits and set
\* max_deployments to max_frontend + max_backend.
InitialUsers ==
    [u \in Users |->
        IF u = "u1"
        THEN [current_plan |-> "free", subscription_status |-> "none",
              max_deployments |-> DefaultMaxDeployments]
        ELSE [current_plan |-> "starter", subscription_status |-> "active",
              max_deployments |-> StarterLimits.max_frontend
                                  + StarterLimits.max_backend]]

InitialSubscriptions ==
    [u \in Users |->
        IF u = "u1"
        THEN [status |-> "none", current_end |-> 0, limits |-> NoLimits]
        ELSE [status |-> "active", current_end |-> SubscriptionEnd,
              limits |-> StarterLimits]]

InitLifecycle ==
    /\ now = 0
    /\ users = InitialUsers
    /\ subscriptions = InitialSubscriptions
    /\ \E owner \in [DepIds -> Users],
          first \in {"deployed", "failed"},
          lost \in SUBSET {<<1, "backend">>} :
          /\ first = "deployed" => lost = {}
          /\ deployments = [d \in DepIds |->
                DeploymentDoc(d, owner[d], d = 1,
                              IF d = 1 THEN first ELSE "deployed")]
          /\ pm2 = InitialProcs(deployments, lost)
          /\ nginx = InitialSites(deployments)
          /\ logs = InitialLogs(deployments)
    /\ channelUp = TRUE
    /\ strictQuery \in BOOLEAN
    /\ sentDeadline = [d \in DepIds |-> NoDate]
    /\ lastCall = NoCall
    /\ sweepLog = NoSweep
    /\ clawdBotImpl = "earlier"
    /\ requests = [d \in DepIds |-> Done("none", NoSubdomain)]
    /\ roleCall = NoRoleCall
    /\ roleResult = NoRoleResult
    /\ callArgs = NoCallArgs
    /\ callResult = NoCallResult
    /\ IdleChannel

\* POST /api/deployments/:id/stop
StopDeployment(d) ==
    /\ d \in DOMAIN deployments
    /\ \E r \in {StopOp(deployments, pm2, channelUp, d)} :
           /\ deployments' = r.deps
           /\ pm2' = r.procs
           /\ logs' = logs \cup r.logged
           /\ lastCall' = r.ret
    /\ sweepLog' = NoSweep
    /\ UNCHANGED <<now, users, subscriptions, channelUp, strictQuery,
                   sentDeadline, nginx, deployVars, callVars>>

\* POST /api/deployments/:id/restart
RestartDeployment(d) ==
    /\ d \in DOMAIN deployments
    /\ \E r \in {RestartOp(deployments, pm2, channelUp, d)} :
           /\ deployments' = r.deps
           /\ pm2' = r.procs
           /\ logs' = logs \cup r.logged
           /\ lastCall' = r.ret
    /\ sweepLog' = NoSweep
    /\ UNCHANGED <<now, users, subscriptions, channelUp, strictQuery,
                   sentDeadline, nginx, deployVars, callVars>>

\* DELETE /api/deployments/:id
DeleteDeployment(d) ==
    /\ d \in DOMAIN deployments
    /\ \E r \in {DeleteOp(deployments, pm2, nginx, logs,
                          StableChannel(channelUp), d)} :
           /\ deployments' = r.deps
           /\ pm2' = r.procs
           /\ nginx' = r.sites
           /\ logs' = r.logs
           /\ sentDeadline' = IF r.threw THEN sentDeadline
                               ELSE [sentDeadline EXCEPT ![d] = NoDate]
    /\ lastCall' = NoCall
    /\ sweepLog' = NoSweep
    /\ UNCHANGED <<now, users, subscriptions, channelUp, strictQuery,
                   deployVars, callVars>>

\* One run of the monitor's timer callback, the store answering every
\* request
MonitorSweep ==
    LET S0 == [deps |-> deployments, procs |-> pm2, sites |-> nginx,
               logs |-> logs,
               sent |-> <<>>,
               deadline |-> sentDeadline,
               users |-> users, subs |-> subscriptions,
               enforced |-> {}, deleting |-> {}]
    IN  \E S \in {CheckExpiredSubscriptions(S0, now, strictQuery, channelUp,
                                             {})} :
        /\ deployments' = S.deps
        /\ pm2' = S.procs
        /\ nginx' = S.sites
        /\ logs' = S.logs
        /\ users' = S.users
        /\ subscriptions' = S.subs
        /\ sentDeadline' = S.deadline
        /\ sweepLog' = [ran |-> TRUE, enforced |-> S.enforced,
                        sent |-> S.sent, deleting |-> S.deleting]
        /\ lastCall' = NoCall
        /\ UNCHANGED <<now, channelUp, strictQuery, deployVars, callVars>>

\* The clock advances
Tick ==
    /\ now + TickDays <= MaxTime
    /\ now' = now + TickDays
    /\ lastCall' = NoCall
    /\ sweepLog' = NoSweep
    /\ UNCHANGED <<users, subscriptions, deployments, pm2, channelUp,
                   strictQuery, sentDeadline, nginx, logs, deployVars,
                   callVars>>

\* The host becomes unreachable, or reachable again
ChannelFlap ==
    /\ channelUp' = ~channelUp
    /\ lastCall' = NoCall
    /\ sweepLog' = NoSweep
    /\ UNCHANGED <<now, users, subscriptions, deployments, pm2, strictQuery,
                   sentDeadline, nginx, logs, deployVars, callVars>>

NextLifecycle ==
    \/ \E d \in DepIds : StopDeployment(d)
    \/ \E d \in DepIds : RestartDeployment(d)
    \/ \E d \in DepIds : DeleteDeployment(d)
    \/ MonitorSweep
    \/ Tick
    \/ ChannelFlap

SpecLifecycle == InitLifecycle /\ [][NextLifecycle]_vars

(***************************************************************************)
(* Properties of stop / restart and of the subscription monitor            *)
(***************************************************************************)
\* Whether the supervisor command for role r of deployment d succeeds in
\* the current state of the host.
RoleCallSucceeds(d, r) == channelUp /\ pm2[<<d, r>>] # "missing"

\* C1: stopDeployment / restartDeployment on a deployment with one or two
\* role handles change the status (to stopped / deployed) only if the
\* supervisor call succeeded for every present role; if a present role's
\* call fails the record is left as it was and the call returns
\* success=false with the per-role results.
C1_StopRestartAllOrNothing ==
    [][\A d \in DepIds :
        (StopDeployment(d) \/ RestartDeployment(d)) =>
            LET roles == PresentRoles(deployments[d])
                target == IF lastCall'.op = "stop" THEN "stopped" ELSE "deployed"
            IN  /\ roles # {}
                /\ lastCall'.results = [r \in roles |-> RoleCallSucceeds(d, r)]
                /\ (\E r \in roles : ~RoleCallSucceeds(d, r)) =>
                       /\ deployments'[d] = deployments[d]
                       /\ lastCall'.success = FALSE
                /\ (\A r \in roles : RoleCallSucceeds(d, r)) =>
                       /\ deployments'[d].status = target
                       /\ lastCall'.success = TRUE
      ]_vars

\* A stop of a two-role deployment in which one role's call succeeded and
\* the other's failed, the status being left at 'failed'.
C1_Witness ==
    /\ lastCall.op = "stop"
    /\ lastCall.success = FALSE
    /\ \E r \in DOMAIN lastCall.results : lastCall.results[r]
    /\ \E r \in DOMAIN lastCall.results : ~lastCall.results[r]
    /\ lastCall.id \in DOMAIN deployments
    /\ deployments[lastCall.id].status = "failed"

\* C2 (as claimed): a suspended deployment whose delete deadline, the one
\* the monitor computed when it suspended it, lies in the future is not
\* deleted by a monitor sweep, and one whose deadline has passed is handed
\* to deleteDeployment by the next sweep.
C2_ReapedExactlyAfterDeadline ==
    [][MonitorSweep =>
        \A d \in DOMAIN deployments :
            (deployments[d].status = "suspended" /\ sentDeadline[d] # NoDate) =>
                /\ sentDeadline[d] > now =>
                       /\ d \notin sweepLog'.deleting
                       /\ d \in DOMAIN deployments'
                /\ sentDeadline[d] < now => d \in sweepLog'.deleting
      ]_vars

\* C3 (as claimed): every persisted deployment whose status is suspended
\* carries a non-null delete_scheduled_at.
C3_SuspendedHasDeadline ==
    \A d \in DOMAIN deployments :
        deployments[d].status = "suspended" =>
            deployments[d].delete_scheduled_at # NoDate

\* C4: a run of enforceSubscriptionLimits leaves every already-suspended
\* deployment as it is: its record is not written and no new delete
\* deadline is computed for it, so the deadline stays the one of the first
\* suspension.
C4_EnforceIdempotent ==
    [][MonitorSweep =>
        \A d \in DOMAIN deployments :
            (deployments[d].status = "suspended" /\ d \in DOMAIN deployments') =>
                /\ deployments'[d] = deployments[d]
                /\ sentDeadline'[d] = sentDeadline[d]
                /\ d \notin DOMAIN sweepLog'.sent
      ]_vars

\* A sweep has just enforced the limits of the owner of a deployment that
\* was suspended by an earlier sweep on an earlier day.
C4_Witness ==
    /\ sweepLog.ran
    /\ \E d \in DOMAIN deployments :
        /\ deployments[d].status = "suspended"
        /\ deployments[d].user_id \in sweepLog.enforced
        /\ d \notin DOMAIN sweepLog.sent
        /\ sentDeadline[d] # NoDate
        /\ sentDeadline[d] < now + GRACE_PERIOD_DAYS

(***************************************************************************)
(* SubdomainGenerator, PortManager, NginxManager and the quota checks      *)
(***************************************************************************)
\* SubdomainGenerator.generate(length): a random token of that length
Generate(length) == {<<length, k>> : k \in 1..TokenCount}

\* SubdomainGenerator.generateUnique(existingSubdomains, maxAttempts): the
\* values the call can return.  Some attempt of the loop returns a token
\* that is neither in existingSubdomains nor in this.usedSubdomains; or
\* each of the maxAttempts attempts draws a taken token, and generate(8) is
\* returned as it is.
GenerateUnique(existingSubdomains, usedSubdomains, maxAttempts) ==
    LET free == {t \in Generate(SubdomainLength) :
                    t \notin existingSubdomains /\ t \notin usedSubdomains}
        taken == Generate(SubdomainLength) \ free
    IN  (IF maxAttempts > 0 THEN free ELSE {})
        \cup (IF maxAttempts = 0 \/ taken # {}
              THEN Generate(FallbackLength) ELSE {})

\* existingDeployments.map(d => d.subdomain) of Deployment.findByUserId(u)
ExistingSubdomains(deps, u) ==
    {deps[d].subdomain : d \in {x \in DOMAIN deps : deps[x].user_id = u}}

\* The unique index on subdomain: save() of a new record fails when a stored
\* record holds the same subdomain.
DuplicateKey(deps, subdomain) ==
    \E d \in DOMAIN deps : deps[d].subdomain = subdomain

\* User.canDeploy(userId): the count of records that are not failed is
\* below max_deployments
CanDeploy(usrs, deps, u) ==
    Cardinality({d \in DOMAIN deps :
                    deps[d].user_id = u /\ deps[d].status # "failed"})
        < usrs[u].max_deployments

\* middleware checkDeploymentLimits(req, res, next): what it answers for a
\* request of user u at time t.  No route mounts this middleware.
CheckDeploymentLimits(subs, deps, t, u, wantsFrontend, wantsBackend) ==
    LET found == subs[u].status \in {"active", "created"}
        isActive == subs[u].status = "active" /\ ~(t > subs[u].current_end)
        mine == {d \in DOMAIN deps : deps[d].user_id = u}
        frontendCount == Cardinality({d \in mine : deps[d].frontend_repo # NULL})
        backendCount == Cardinality({d \in mine : deps[d].backend_repo # NULL})
    IN  IF ~found \/ ~isActive THEN "Subscription required"
        ELSE IF wantsFrontend /\ frontendCount >= subs[u].limits.max_frontend
        THEN "Frontend deployment limit reached"
        ELSE IF wantsBackend /\ backendCount >= subs[u].limits.max_backend
        THEN "Backend deployment limit reached"
        ELSE "next"

\* The ports `lsof -i :port` finds a listener on: those of online processes
Listening(deps, procs) ==
    {PortOf(deps[h[1]], h[2]) :
        h \in {x \in Handles : x[1] \in DOMAIN deps /\ procs[x] = "online"}}
    \ {NoPort}

\* SSHManager.findFreePort through PortManager.findFreePort: the lowest
\* port of the range without a listener; NoPort stands for the throw of
\* 'No free ports available'.
FindFreePort(listening) ==
    IF PortRange \ listening = {} THEN NoPort
    ELSE CHOOSE p \in PortRange \ listening :
            \A q \in PortRange \ listening : p <= q

\* PortManager.findMultipleFreePorts(count): findFreePort, count times;
\* nothing starts to listen between the scans of one request.
FindMultipleFreePorts(count, listening) ==
    [i \in 1..count |-> FindFreePort(listening)]

\* The port an application started with PORT=allocated binds: the first
\* port from the allocated one on that has no listener.
AppPort(allocated, listening) ==
    LET open == {p \in PortRange : p >= allocated /\ p \notin listening}
    IN  IF open = {} THEN NoPort
        ELSE CHOOSE p \in open : \A q \in open : p <= q

\* What the host can answer during a role deploy of a deployment request:
\* the connection fails; the build fails; the process errors and no port
\* is found; or the process is online and the port the application bound
\* is detected and verified.
DeployEnvs(allocated, listening) ==
    {e \in RoleEnvs :
        /\ e.detect2 = e.detect1
        /\ e.envPort = NoPort
        /\ e.verify
        /\ ~e.channel => (e.rpc = "FAILED" /\ e.pm2 = "missing")
        /\ e.rpc = "FAILED" => (e.pm2 = "missing" /\ e.detect1 = NoPort)
        /\ e.rpc = "SUCCESS" =>
              \/ e.pm2 = "errored" /\ e.detect1 = NoPort
              \/ /\ e.pm2 = "online"
                 /\ e.detect1 # NoPort
                 /\ e.detect1 = AppPort(allocated, listening)}

\* createSubdomainConfig: `nginx -t` fails, `systemctl reload nginx` fails,
\* or both succeed.  Either failure is thrown.
NginxOutcomes == {"ok", "test failed", "reload failed"}

OverallSuccess_any(frontendResult, backendResult) ==
    (frontendResult = "none" \/ frontendResult = "success")
        \/ (backendResult = "none" \/ backendResult = "success")

\* (frontendResult === null || frontendResult.success) &&
\* (backendResult === null || backendResult.success)
OverallSuccess(frontendResult, backendResult) ==
    (frontendResult = "none" \/ frontendResult = "success")
        /\ (backendResult = "none" \/ backendResult = "success")

(***************************************************************************)
(* One role deploy, observed on its own: the arguments of the call and the *)
(* answers of the remote host are drawn when the call starts.              *)
(***************************************************************************)
\* The calls under observation.  The earlier module is only ever handed a
\* log callback in the sixth position.
RoleCalls ==
    {c \in [impl : ClawdBotImpls, sixth : SixthArgs, port : PortRange,
            env : RoleEnvs] :
        c.impl = "earlier" => c.sixth = "onLog"}

\* A store without deployments and a host without processes or sites
EmptyBackend ==
    /\ now = 0
    /\ users = InitialUsers
    /\ subscriptions = InitialSubscriptions
    /\ deployments = <<>>
    /\ pm2 = [h \in Handles |-> "missing"]
    /\ nginx = <<>>
    /\ logs = {}
    /\ channelUp = TRUE
    /\ strictQuery = TRUE
    /\ sentDeadline = [d \in DepIds |-> NoDate]
    /\ lastCall = NoCall
    /\ sweepLog = NoSweep

InitRole ==
    /\ EmptyBackend
    /\ clawdBotImpl \in ClawdBotImpls
    /\ requests = [d \in DepIds |-> NoRequest]
    /\ roleCall \in RoleCalls
    /\ roleCall.impl = clawdBotImpl
    /\ roleResult = NoRoleResult
    /\ callArgs = NoCallArgs
    /\ callResult = NoCallResult
    /\ IdleChannel

\* await clawdBot.deploy(deploymentId, repo, port, domain, appName, sixth)
RunRoleDeploy ==
    /\ roleCall # NoRoleCall
    /\ roleResult = NoRoleResult
    /\ roleResult' = ClawdBotDeploy(roleCall.impl, roleCall.sixth,
                                    roleCall.port, roleCall.env)
    /\ UNCHANGED <<lifecycleVars, deployVars, roleCall, fnVars, channelVars>>

NextRole == RunRoleDeploy

SpecRole == InitRole /\ [][NextRole]_vars

\* The build RPC of the observed call was issued and printed SUCCESS, and
\* the supervisor reports the process online.
RoleBuiltAndOnline ==
    /\ roleCall # NoRoleCall
    /\ roleCall.env.channel
    /\ ~(roleCall.impl = "current" /\ roleCall.sixth = "onLog")
    /\ roleCall.env.rpc = "SUCCESS"
    /\ roleCall.env.pm2 = "online"

\* Both calls of detectActualPort returned no port
DetectionFailedTwice ==
    /\ roleCall.env.detect1 = NoPort
    /\ roleCall.env.detect2 = NoPort

\* The result of the fallback: success, on the allocated port, with the
\* note that the port was not confirmed
IsFallbackResult ==
    /\ roleResult.success
    /\ roleResult.port = roleCall.port
    /\ roleResult.actualPort = roleCall.port
    /\ roleResult.allocatedPort = roleCall.port
    /\ ~roleResult.portChanged
    /\ roleResult.note = NoteDetectionPending

Entries == {"http", "ws"}

RequestIds == DepIds \ {1}

TwoRoles(d) == d = 2

\* Record 1 as its deploy left it.  With the earlier ClawdBotService the
\* frontend is deployed and online on the first port of the range; with
\* the current one the role call failed before the build and the record is
\* failed, with no process and no site.
FirstRecord(impl, owner) ==
    IF impl = "earlier"
    THEN [DeploymentDoc(1, owner, FALSE, "deployed") EXCEPT !.frontend_port = MinPort]
    ELSE [DeploymentDoc(1, owner, FALSE, "failed") EXCEPT !.frontend_port = MinPort]

\* The log entries the deploy of record 1 stored
FirstLogs(impl) ==
    LogsOf(1, {<<"info", "other">>, <<"success", "other">>}
              \cup (IF impl = "earlier" THEN {}
                    ELSE {<<"error", "other">>, <<"warning", "other">>}))

InitDeploy ==
    /\ now = 0
    /\ users = InitialUsers
    /\ subscriptions = InitialSubscriptions
    /\ clawdBotImpl \in ClawdBotImpls
    /\ \E owner \in Users :
          deployments = [d \in {1} |-> FirstRecord(clawdBotImpl, owner)]
    /\ pm2 = [h \in Handles |->
                IF h = <<1, "frontend">> /\ clawdBotImpl = "earlier"
                THEN "online" ELSE "missing"]
    /\ nginx = InitialSites(deployments)
    /\ logs = FirstLogs(clawdBotImpl)
    /\ channelUp = TRUE
    /\ strictQuery = TRUE
    /\ sentDeadline = [d \in DepIds |-> NoDate]
    /\ lastCall = NoCall
    /\ sweepLog = NoSweep
    /\ requests = [d \in DepIds |-> IF d = 1 THEN Done("none", NoSubdomain)
                                     ELSE NoRequest]
    /\ roleCall = NoRoleCall
    /\ roleResult = NoRoleResult
    /\ callArgs = NoCallArgs
    /\ callResult = NoCallResult
    /\ IdleChannel

\* deploy() threw for request d: its catch block rethrows.  The HTTP route's
\* .catch then stores status failed; the WebSocket handler's catch only
\* emits deployment_failed.
DeployThrew(deps, entry, d) ==
    IF entry = "http" THEN UpdateStatus(deps, d, "failed") ELSE deps

\* The request arrives.  HTTP: the route handler up to the result of
\* Deployment.findByUserId.  WebSocket: deploy() up to the same point, with
\* User.canDeploy first.
ReceiveDeploy(d, u, entry) ==
    /\ requests[d].pc = "idle"
    /\ requests[d - 1].pc # "idle"
    /\ LET answer == CheckDeploymentLimits(subscriptions, deployments, now, u,
                                            TRUE, TwoRoles(d))
           req == [NoRequest EXCEPT
                     !.entry = entry, !.user = u,
                     !.overQuota = answer \in {"Frontend deployment limit reached",
                                                "Backend deployment limit reached"}]
       IN  requests' = [requests EXCEPT ![d] =
               IF entry = "ws" /\ ~CanDeploy(users, deployments, u)
               THEN Done("Deployment limit reached", NoSubdomain)
               ELSE [req EXCEPT !.pc = "create",
                                !.existing = ExistingSubdomains(deployments, u)]]
    /\ UNCHANGED <<lifecycleVars, clawdBotImpl, callVars>>

\* generateUnique on a generator created for this request, then
\* Deployment.create.  A duplicate key error leaves no record: the HTTP
\* route answers 500, deploy() rethrows to the WebSocket handler.
CreateRecord(d) ==
    /\ requests[d].pc = "create"
    /\ \E subdomain \in GenerateUnique(requests[d].existing, {}, MaxAttempts) :
          IF DuplicateKey(deployments, subdomain)
          THEN /\ requests' = [requests EXCEPT ![d] =
                                  Done("duplicate key", subdomain)]
               /\ UNCHANGED deployments
          ELSE /\ requests' = [requests EXCEPT ![d] =
                     [@ EXCEPT !.pc = "ports", !.existing = {},
                               !.generated = subdomain]]
               /\ deployments' =
                     [x \in DOMAIN deployments \cup {d} |->
                        IF x = d
                        THEN NewDeployment(requests[d].user, subdomain, TwoRoles(d))
                        ELSE deployments[x]]
    /\ UNCHANGED <<now, users, subscriptions, pm2, channelUp, strictQuery,
                   sentDeadline, lastCall, sweepLog, nginx, logs,
                   clawdBotImpl, callVars>>

\* findMultipleFreePorts and the Deployment.update that stores the ports
\* and the PM2 names.  The scan throws if the host cannot be reached or no
\* port of the range is free.
AllocatePorts(d) ==
    /\ requests[d].pc = "ports"
    /\ LET count == IF TwoRoles(d) THEN 2 ELSE 1
           ports == FindMultipleFreePorts(count, Listening(deployments, pm2))
       IN  \E reachable \in BOOLEAN :
           IF ~reachable \/ ports[1] = NoPort
           THEN /\ requests' = [requests EXCEPT ![d] =
                                   Done("No free ports available", NoSubdomain)]
                /\ deployments' = DeployThrew(deployments, requests[d].entry, d)
           ELSE /\ requests' = [requests EXCEPT ![d] = [@ EXCEPT !.pc = "frontend"]]
                /\ deployments' = [deployments EXCEPT ![d] =
                      FindByIdAndUpdate(@,
                        [frontend_port |-> ports[1],
                         frontend_allocated_port |-> ports[1],
                         frontend_actual_port |-> NoPort,
                         backend_port |-> IF TwoRoles(d) THEN ports[2] ELSE NoPort,
                         backend_allocated_port |->
                             IF TwoRoles(d) THEN ports[2] ELSE NoPort,
                         backend_actual_port |-> NoPort,
                         pm2_frontend_name |-> "set",
                         pm2_backend_name |-> IF TwoRoles(d) THEN "set" ELSE NULL])]
    /\ UNCHANGED <<now, users, subscriptions, pm2, channelUp, strictQuery,
                   sentDeadline, lastCall, sweepLog, nginx, logs,
                   clawdBotImpl, callVars>>

RoleDeployed_allocated(role, allocatedPort, actualPort) ==
    IF role = "frontend"
    THEN [frontend_url |-> "url", frontend_port |-> allocatedPort,
          frontend_allocated_port |-> allocatedPort,
          frontend_actual_port |-> allocatedPort]
    ELSE [backend_url |-> "url", backend_port |-> allocatedPort,
          backend_allocated_port |-> allocatedPort,
          backend_actual_port |-> allocatedPort]

\* The update after a role's site was provisioned
RoleDeployed(role, allocatedPort, actualPort) ==
    IF role = "frontend"
    THEN [frontend_url |-> "url", frontend_port |-> actualPort,
          frontend_allocated_port |-> allocatedPort,
          frontend_actual_port |-> actualPort]
    ELSE [backend_url |-> "url", backend_port |-> actualPort,
          backend_allocated_port |-> allocatedPort,
          backend_actual_port |-> actualPort]

\* The <<log_type, message>> entries the `log` helper of deploy() stores in
\* the step of one role, given what clawdBot.deploy returned and how
\* createSubdomainConfig ended
DeployRoleLogs(result, outcome) ==
    {<<"info", "other">>} \cup
    IF ~result.success THEN {<<"error", "other">>}
    ELSE (IF result.portChanged THEN {<<"warning", "port mismatch">>} ELSE {})
         \cup (IF outcome = "ok" THEN {<<"success", "other">>} ELSE {})

\* Step 6 (frontend) or 7 (backend) of deploy(): clawdBot.deploy with the
\* log callback as sixth argument and, if it reports success,
\* createSubdomainConfig and the Deployment.update of url and port.
DeployRole(d, role) ==
    /\ requests[d].pc = role
    /\ LET doc == deployments[d]
           allocated == PortOf(doc, role)
           next == IF role = "frontend" /\ doc.backend_repo # NULL
                   THEN "backend" ELSE "finish"
       IN  \E env \in DeployEnvs(allocated, Listening(deployments, pm2)),
              outcome \in NginxOutcomes :
            LET result == ClawdBotDeploy(clawdBotImpl, "onLog", allocated, env)
                started == /\ env.channel
                           /\ clawdBotImpl = "earlier"
                           /\ env.rpc = "SUCCESS"
            IN  /\ pm2' = [pm2 EXCEPT ![<<d, role>>] =
                              IF started THEN env.pm2 ELSE @]
                /\ nginx' = IF result.success
                            THEN [s \in DOMAIN nginx \cup {<<doc.subdomain, role>>}
                                    |-> IF s = <<doc.subdomain, role>>
                                        THEN result.actualPort ELSE nginx[s]]
                            ELSE nginx
                /\ logs' = logs \cup LogsOf(d,
                              ClawdBotLogs(clawdBotImpl, "onLog", allocated, env)
                              \cup DeployRoleLogs(result, outcome))
                /\ IF ~result.success
                   THEN /\ requests' = [requests EXCEPT ![d] =
                              [@ EXCEPT !.pc = next, ![role] = "failed"]]
                        /\ UNCHANGED deployments
                   ELSE IF outcome # "ok"
                   THEN /\ requests' = [requests EXCEPT ![d] =
                                           Done(IF role = "frontend"
                                                THEN "frontend proxy"
                                                ELSE "backend proxy",
                                                NoSubdomain)]
                        /\ deployments' =
                              DeployThrew(deployments, requests[d].entry, d)
                   ELSE /\ requests' = [requests EXCEPT ![d] =
                              [@ EXCEPT !.pc = next, ![role] = "success"]]
                        /\ deployments' = [deployments EXCEPT ![d] =
                              FindByIdAndUpdate(@,
                                  RoleDeployed(role, result.allocatedPort,
                                               result.actualPort))]
    /\ UNCHANGED <<now, users, subscriptions, channelUp, strictQuery,
                   sentDeadline, lastCall, sweepLog, clawdBotImpl, callVars>>

\* Step 8 of deploy(): the status is stored and deploy() returns
FinishDeploy(d) ==
    /\ requests[d].pc = "finish"
    /\ deployments' = UpdateStatus(deployments, d,
            IF OverallSuccess(requests[d].frontend, requests[d].backend)
            THEN "deployed" ELSE "failed")
    /\ logs' = logs \cup LogsOf(d,
            IF OverallSuccess(requests[d].frontend, requests[d].backend)
            THEN {<<"success", "other">>} ELSE {<<"warning", "other">>})
    /\ requests' = [requests EXCEPT ![d] = Done("none", NoSubdomain)]
    /\ UNCHANGED <<now, users, subscriptions, pm2, channelUp, strictQuery,
                   sentDeadline, lastCall, sweepLog, nginx, clawdBotImpl,
                   callVars>>

NextDeploy ==
    \/ \E d \in RequestIds, u \in Users, entry \in Entries : ReceiveDeploy(d, u, entry)
    \/ \E d \in RequestIds : CreateRecord(d)
    \/ \E d \in RequestIds : AllocatePorts(d)
    \/ \E d \in RequestIds, role \in Roles : DeployRole(d, role)
    \/ \E d \in RequestIds : FinishDeploy(d)

SpecDeploy == InitDeploy /\ [][NextDeploy]_vars

(***************************************************************************)
(* Properties of deploy requests                                           *)
(***************************************************************************)
\* The roles request d asks for
RequestedRoles(d) == IF TwoRoles(d) THEN Roles ELSE {"frontend"}

\* deploy() of request d has got past findMultipleFreePorts
PortsAllocated(d) == requests[d].pc \in {"frontend", "backend", "finish"}

\* C5 (as claimed): no two records hold the same subdomain, and whenever
\* generateUnique returns a subdomain for a deploy request (through an
\* attempt of the loop or through the longer-token fallback), that
\* subdomain is not held by any live deployment of any user.
C5_GeneratedSubdomainNotHeld ==
    [][\A d \in RequestIds :
        CreateRecord(d) =>
            /\ ~DuplicateKey(deployments, requests'[d].generated)
            /\ \A a, b \in DOMAIN deployments' :
                  a # b => deployments'[a].subdomain # deployments'[b].subdomain
      ]_vars

\* C6 (as claimed): a request whose requested roles exceed the per-role
\* headroom of the user's grant is rejected before ports are allocated:
\* no such request gets past findMultipleFreePorts.
C6_OverQuotaNeverAllocated ==
    \A d \in RequestIds : requests[d].overQuota => ~PortsAllocated(d)

\* C7 (as claimed): once deploy() has returned or thrown, on either entry
\* point, the record of the request is deployed or failed, not deploying.
C7_DefiniteStatus ==
    \A d \in RequestIds :
        (requests[d].pc = "done" /\ d \in DOMAIN deployments) =>
            deployments[d].status \in {"deployed", "failed"}

\* C8: when deploy() completes, the status it stores is deployed if and
\* only if every requested role succeeded and failed otherwise; and for
\* every role that succeeded the process is still online, the site is still
\* enabled and the record still has the role's url and port.
C8_DeployedIffAllRolesSucceeded ==
    [][\A d \in RequestIds :
        FinishDeploy(d) =>
            LET allSucceeded ==
                    \A r \in RequestedRoles(d) : requests[d][r] = "success"
                doc == deployments'[d]
            IN  /\ doc.status = "deployed" <=> allSucceeded
                /\ ~allSucceeded => doc.status = "failed"
                /\ \A r \in RequestedRoles(d) :
                      requests[d][r] = "success" =>
                          /\ pm2'[<<d, r>>] = "online"
                          /\ <<doc.subdomain, r>> \in DOMAIN nginx'
                          /\ PortOf(doc, r) # NoPort
                          /\ IF r = "frontend" THEN doc.frontend_url # NULL
                             ELSE doc.backend_url # NULL
      ]_vars

\* deploy() of the two-role request has returned with the frontend
\* succeeded and the backend failed: the record is failed, and the
\* frontend's process, site, url and port are in place.
C8_Witness ==
    /\ 2 \in DOMAIN deployments
    /\ requests[2].pc = "done"
    /\ requests[2].error = "none"
    /\ deployments[2].status = "failed"
    /\ deployments[2].frontend_url # NULL
    /\ deployments[2].backend_url = NULL
    /\ pm2[<<2, "frontend">>] = "online"
    /\ <<deployments[2].subdomain, "frontend">> \in DOMAIN nginx

\* C9 (as claimed): in a two-role deploy, whatever happens in the step of
\* the first role (build failure, process not online, proxy provisioning
\* failure), the second role is attempted next.
C9_SecondRoleAlwaysAttempted ==
    [][\A d \in RequestIds :
        (TwoRoles(d) /\ DeployRole(d, "frontend")) =>
            requests'[d].pc = "backend"
      ]_vars

\* <role>_allocated_port and <role>_actual_port of a record
AllocatedPortOf(doc, role) ==
    IF role = "frontend" THEN doc.frontend_allocated_port
    ELSE doc.backend_allocated_port

ActualPortOf(doc, role) ==
    IF role = "frontend" THEN doc.frontend_actual_port
    ELSE doc.backend_actual_port

\* In this step the build RPC of role `role` of request d succeeded, its
\* process came online, and the application bound a port other than the
\* allocated one, which detection found.
MismatchDetected(d, role) ==
    /\ pm2[<<d, role>>] = "missing"
    /\ pm2'[<<d, role>>] = "online"
    /\ DeployRole(d, role)
    /\ AppPort(PortOf(deployments[d], role), Listening(deployments, pm2))
          # PortOf(deployments[d], role)

ScanAnswers ==
    {a \in [reachable : BOOLEAN, scan : SUBSET PortRange,
            recheck : {"FREE", "IN_USE", "unreachable"}] :
        ~a.reachable => (a.scan = {} /\ a.recheck = "unreachable")}

\* SSHManager.findFreePort() under the answers a
ScannedPort(a) == IF a.reachable THEN FindFreePort(a.scan) ELSE NoPort

\* The calls under observation: the recursion ends within MaxScans scans
FindFreePortCalls ==
    {a \in [1..MaxScans -> ScanAnswers] :
        ScannedPort(a[MaxScans]) # NoPort => a[MaxScans].recheck # "IN_USE"}

\* throw new Error('No free ports available')
NoFreePorts(scans) == [fn |-> "findFreePort", port |-> NoPort, scans |-> scans]

RECURSIVE PortManagerFindFreePort_unchecked(_, _)
PortManagerFindFreePort_unchecked(answers, i) ==
    LET port == ScannedPort(answers[i])
    IN  IF port = NoPort \/ answers[i].recheck = "unreachable"
        THEN NoFreePorts(i)
        ELSE [fn |-> "findFreePort", port |-> port, scans |-> i]

\* PortManager.findFreePort(): the scan of SSHManager.findFreePort, the
\* re-check of checkPortInUse, and the call of itself if the port is in
\* use; any throw ends as 'No free ports available'.  i is the number of
\* the scan.
RECURSIVE PortManagerFindFreePort(_, _)
PortManagerFindFreePort(answers, i) ==
    LET port == ScannedPort(answers[i])
    IN  IF port = NoPort \/ answers[i].recheck = "unreachable"
        THEN NoFreePorts(i)
        ELSE IF answers[i].recheck = "FREE"
        THEN [fn |-> "findFreePort", port |-> port, scans |-> i]
        ELSE PortManagerFindFreePort(answers, i + 1)

InitPort ==
    /\ EmptyBackend
    /\ clawdBotImpl = "current"
    /\ requests = [d \in DepIds |-> NoRequest]
    /\ roleCall = NoRoleCall
    /\ roleResult = NoRoleResult
    /\ \E a \in FindFreePortCalls :
          callArgs = [fn |-> "findFreePort", answers |-> a]
    /\ callResult = NoCallResult
    /\ IdleChannel

\* await portManager.findFreePort()
RunFindFreePort ==
    /\ callArgs.fn = "findFreePort"
    /\ callResult = NoCallResult
    /\ callResult' = PortManagerFindFreePort(callArgs.answers, 1)
    /\ UNCHANGED <<lifecycleVars, deployVars, roleVars, callArgs,
                   channelVars>>

NextPort == RunFindFreePort

SpecPort == InitPort /\ [][NextPort]_vars

\* C12: every port findFreePort returns lies in the configured range, and
\* the re-check made right before the return reported it as not in use.
C12_FreePortInRangeAndRechecked ==
    (callResult.fn = "findFreePort" /\ callResult.port # NoPort) =>
        /\ callResult.port \in PortRange
        /\ callArgs.answers[callResult.scans].recheck = "FREE"
        /\ callResult.port \notin callArgs.answers[callResult.scans].scan

\* The first port was found in use by the re-check, and the port of the
\* second scan is returned.
C12_Witness ==
    /\ callResult.fn = "findFreePort"
    /\ callResult.port # NoPort
    /\ callResult.scans = 2
    /\ callArgs.answers[1].recheck = "IN_USE"
    /\ callResult.port # ScannedPort(callArgs.answers[1])

(***************************************************************************)
(* The log-scanning step of ClawdBotService.detectActualPort (Method 2),   *)
(* observed on its own: the output of `pm2 logs` is drawn when the call    *)
(* starts.                                                                 *)
(***************************************************************************)
\* const portPatterns = [...]: the patterns by their position in the list
PatternCount == 10
Patterns == 1..PatternCount

\* detectedPort >= 3000 && detectedPort <= 9000
ScanPortMin == 3000
ScanPortMax == 9000

\* The lines of output under observation, by their wording, and for each
\* wording the patterns of the list that match it (all capture the number
\* N of the line):
\*   "Local"           `Local:   http://localhost:N/`   pattern 1
\*   "ServerListening" `Server listening on port N`     patterns 5 and 9
\*   "PortEquals"      `PORT=N`                         pattern 9
\*   "AppListening"    `App listening on N`             pattern 10
LineShapes == {"Local", "ServerListening", "PortEquals", "AppListening"}

Matches(shape) ==
    CASE shape = "Local" -> {1}
      [] shape = "ServerListening" -> {5, 9}
      [] shape = "PortEquals" -> {9}
      [] shape = "AppListening" -> {10}

\* The numbers a line can carry: the ports of the range and a port below it
LogPorts == {80} \cup PortRange

LogLines == [shape : LineShapes, port : LogPorts]

\* The outputs of `pm2 logs <name> --lines 100 --nostream` under observation
LogOutputs == UNION {[1..n -> LogLines] : n \in 0..MaxLines}

\* logsResult.stdout.match(pattern) and parseInt(match[1]): the number of
\* the first line of the output that the pattern matches, NoPort without
\* a match
FirstMatch(stdout, k) ==
    LET at == {i \in 1..Len(stdout) : k \in Matches(stdout[i].shape)}
    IN  IF at = {} THEN NoPort
        ELSE stdout[CHOOSE i \in at : \A j \in at : i <= j].port

InScanRange(port) == port >= ScanPortMin /\ port <= ScanPortMax

\* The number of the first line any pattern matches with a port in range
ScanPatterns_firstLine(stdout, k) ==
    LET at == {i \in 1..Len(stdout) : InScanRange(stdout[i].port)}
    IN  IF at = {} THEN NoPort
        ELSE stdout[CHOOSE i \in at : \A j \in at : i <= j].port

\* for (const pattern of portPatterns) { ... }, from pattern k on
RECURSIVE ScanPatterns(_, _)
ScanPatterns(stdout, k) ==
    IF k > PatternCount THEN NoPort
    ELSE LET detectedPort == FirstMatch(stdout, k)
         IN  IF detectedPort # NoPort /\ InScanRange(detectedPort)
             THEN detectedPort
             ELSE ScanPatterns(stdout, k + 1)

\* METHOD 2 of detectActualPort: the port it returns, NoPort when the step
\* falls through to Method 3
ScanLogs(success, stdout) ==
    IF success /\ Len(stdout) > 0 THEN ScanPatterns(stdout, 1) ELSE NoPort

InitScan ==
    /\ EmptyBackend
    /\ clawdBotImpl = "current"
    /\ requests = [d \in DepIds |-> NoRequest]
    /\ roleCall = NoRoleCall
    /\ roleResult = NoRoleResult
    /\ \E success \in BOOLEAN, stdout \in LogOutputs :
          callArgs = [fn |-> "scanLogs", success |-> success,
                      stdout |-> stdout]
    /\ callResult = NoCallResult
    /\ IdleChannel

RunScanLogs ==
    /\ callArgs.fn = "scanLogs"
    /\ callResult = NoCallResult
    /\ callResult' = [fn |-> "scanLogs",
                      port |-> ScanLogs(callArgs.success, callArgs.stdout)]
    /\ UNCHANGED <<lifecycleVars, deployVars, roleVars, callArgs,
                   channelVars>>

NextScan == RunScanLogs

SpecScan == InitScan /\ [][NextScan]_vars

\* The same lines in every order
Reorderings(stdout) ==
    IF Len(stdout) = 0 THEN {stdout}
    ELSE {[i \in 1..Len(stdout) |-> stdout[p[i]]] :
              p \in Permutations(1..Len(stdout))}

MatchedPatterns(stdout) ==
    {k \in Patterns : \E i \in 1..Len(stdout) : k \in Matches(stdout[i].shape)}

\* C13 as claimed: for output that matches several patterns, the port
\* returned is one captured by the highest-priority pattern that matches,
\* and every order of the lines gives the same port.
C13_HighestPriorityPatternWins ==
    (/\ callResult.fn = "scanLogs"
     /\ callArgs.success
     /\ Cardinality(MatchedPatterns(callArgs.stdout)) >= 2) =>
        LET stdout == callArgs.stdout
            top == CHOOSE k \in MatchedPatterns(stdout) :
                       \A j \in MatchedPatterns(stdout) : k <= j
        IN  /\ \E i \in 1..Len(stdout) :
                  /\ top \in Matches(stdout[i].shape)
                  /\ callResult.port = stdout[i].port
            /\ \A other \in Reorderings(stdout) :
                  ScanLogs(TRUE, other) = callResult.port

\* C13: the port returned by the log-scanning step is the first capture of
\* the highest-priority pattern whose first capture lies in 3000..9000,
\* whatever line comes first; no port is returned only if no pattern has
\* such a first capture; and when the lines that one pattern matches all
\* carry the same port, every order of the lines gives the same port.
C13_HighestPriorityValidPatternWins ==
    (callResult.fn = "scanLogs" /\ callArgs.success) =>
        LET stdout == callArgs.stdout
        IN  /\ callResult.port # NoPort =>
                  \E k \in Patterns :
                      /\ FirstMatch(stdout, k) = callResult.port
                      /\ InScanRange(callResult.port)
                      /\ \A j \in 1..(k - 1) :
                            ~InScanRange(FirstMatch(stdout, j))
            /\ callResult.port = NoPort =>
                  \A k \in Patterns : ~InScanRange(FirstMatch(stdout, k))
            /\ (\A i, j \in 1..Len(stdout) :
                    Matches(stdout[i].shape) \cap Matches(stdout[j].shape) # {}
                        => stdout[i].port = stdout[j].port)
                  => \A other \in Reorderings(stdout) :
                         ScanLogs(TRUE, other) = callResult.port

\* A line of a lower-priority pattern comes first and carries another port
\* than the line of the higher-priority pattern, whose port is returned.
C13_Witness ==
    /\ callResult.fn = "scanLogs"
    /\ callArgs.success
    /\ Len(callArgs.stdout) = 2
    /\ callArgs.stdout[1].shape = "PortEquals"
    /\ callArgs.stdout[2].shape = "Local"
    /\ InScanRange(callArgs.stdout[1].port)
    /\ callArgs.stdout[1].port # callArgs.stdout[2].port
    /\ callResult.port = callArgs.stdout[2].port

(***************************************************************************)
(* Properties of the expiry sweep and of the warnings                      *)
(***************************************************************************)
\* C14 (as claimed): when an active grant's current_end has passed, the
\* next sweep sets the grant and the owner's subscription_status to
\* expired, stops every running deployment of the owner and marks it
\* suspended with a delete deadline of the sweep time plus 7 days.
C14_ExpirySuspendsWithDeadline ==
    [][MonitorSweep =>
        \A u \in Users :
            ExpiredGrant(subscriptions[u], now) =>
                /\ subscriptions'[u].status = "expired"
                /\ users'[u].subscription_status = "expired"
                /\ \A d \in DOMAIN deployments :
                      (deployments[d].user_id = u
                       /\ deployments[d].status = "deployed") =>
                          /\ d \in DOMAIN deployments'
                          /\ deployments'[d].status = "suspended"
                          /\ deployments'[d].delete_scheduled_at
                                 = now + GRACE_PERIOD_DAYS
                          /\ \A r \in PresentRoles(deployments[d]) :
                                 pm2'[<<d, r>>] # "online"
      ]_vars

\* The pending_deletion notices of getUserWarnings for the suspended
\* deployments `list`: one for each record that has a delete_scheduled_at
\* with daysLeft > 0 (the clock counts days, so Math.ceil is the
\* difference).
RECURSIVE PendingDeletions(_, _, _)
PendingDeletions(deps, list, t) ==
    IF list = <<>> THEN <<>>
    ELSE LET deployment == deps[Head(list)]
             daysLeft == deployment.delete_scheduled_at - t
             rest == PendingDeletions(deps, Tail(list), t)
         IN  IF deployment.delete_scheduled_at # NoDate /\ daysLeft > 0
             THEN <<[type |-> "pending_deletion",
                     deployment_id |-> Head(list),
                     days_until_deletion |-> daysLeft]>> \o rest
             ELSE rest

\* SubscriptionMonitor.getUserWarnings(userId).warnings at time t
GetUserWarnings(usrs, deps, u, t) ==
    LET suspended == SortedSeq({d \in DOMAIN deps :
                          deps[d].user_id = u /\ deps[d].status = "suspended"})
        expired == IF usrs[u].subscription_status = "expired"
                   THEN <<[type |-> "subscription_expired",
                           suspended_count |-> Len(suspended)]>>
                   ELSE <<>>
    IN  expired \o PendingDeletions(deps, suspended, t)

\* C15 (as claimed): for a user whose subscription_status is expired,
\* getUserWarnings returns exactly one subscription_expired notice with
\* the number of suspended deployments, and exactly one pending_deletion
\* notice for each suspended deployment, whose days_until_deletion is the
\* number of days left to the deadline computed at suspension (7 right
\* after the suspension).
C15_WarningsPerSuspendedDeployment ==
    \A u \in Users :
        users[u].subscription_status = "expired" =>
            LET warnings == GetUserWarnings(users, deployments, u, now)
                suspended == {d \in DOMAIN deployments :
                                 /\ deployments[d].user_id = u
                                 /\ deployments[d].status = "suspended"}
            IN  /\ Cardinality({i \in 1..Len(warnings) :
                        warnings[i].type = "subscription_expired"}) = 1
                /\ warnings[1] = [type |-> "subscription_expired",
                                  suspended_count |-> Cardinality(suspended)]
                /\ \A d \in suspended :
                      /\ Cardinality({i \in 1..Len(warnings) :
                              /\ warnings[i].type = "pending_deletion"
                              /\ warnings[i].deployment_id = d}) = 1
                      /\ \A i \in 1..Len(warnings) :
                             (/\ warnings[i].type = "pending_deletion"
                              /\ warnings[i].deployment_id = d) =>
                                 /\ sentDeadline[d] # NoDate
                                 /\ warnings[i].days_until_deletion
                                        = sentDeadline[d] - now
                                 /\ d \in DOMAIN sweepLog.sent =>
                                        warnings[i].days_until_deletion
                                            = GRACE_PERIOD_DAYS

(***************************************************************************)
(* Properties of the status of a deployment                                *)
(***************************************************************************)
\* C16 (as claimed): apart from the suspension by the monitor, the status
\* of a deployment changes only along deploying -> deployed,
\* deploying -> failed, deployed -> stopped and stopped -> deployed; stop
\* and restart never move a failed or deploying deployment to deployed or
\* stopped.
C16_OperationalTransitionsOnly ==
    [][\A d \in DOMAIN deployments \cap DOMAIN deployments' :
          (/\ deployments'[d].status # deployments[d].status
           /\ deployments'[d].status # "suspended") =>
              <<deployments[d].status, deployments'[d].status>>
                  \in {<<"deploying", "deployed">>, <<"deploying", "failed">>,
                       <<"deployed", "stopped">>, <<"stopped", "deployed">>}
      ]_vars

\* C17 (as claimed): a deployment becomes suspended only in a sweep of the
\* monitor, and a suspended deployment stays suspended until it is
\* deleted: no stop or restart gives it another status.
C17_SuspendedOnlyDeleted ==
    [][\A d \in DOMAIN deployments \cap DOMAIN deployments' :
          /\ (/\ deployments[d].status # "suspended"
              /\ deployments'[d].status = "suspended") => sweepLog'.ran
          /\ deployments[d].status = "suspended" =>
                 deployments'[d].status = "suspended"
      ]_vars

(***************************************************************************)
(* DeploymentService.deleteDeployment, observed on its own: records that   *)
(* deploy() completed earlier, and for each call what goes wrong in its    *)
(* steps.                                                                  *)
(***************************************************************************)
InitDelete == InitLifecycle

\* DELETE /api/deployments/:id, with the connection and the log store
\* failing or not for each step
DeleteDeploymentCall(d) ==
    /\ d \in DOMAIN deployments
    /\ \E env \in DeleteEnvs :
       \E r \in {DeleteOp(deployments, pm2, nginx, logs, env, d)} :
           /\ deployments' = r.deps
           /\ pm2' = r.procs
           /\ nginx' = r.sites
           /\ logs' = r.logs
           /\ sentDeadline' = IF r.threw THEN sentDeadline
                               ELSE [sentDeadline EXCEPT ![d] = NoDate]
           /\ callArgs' = [fn |-> "deleteDeployment", id |-> d, env |-> env]
           /\ callResult' = [fn |-> "deleteDeployment", threw |-> r.threw,
                             attempted |-> r.attempted]
    /\ lastCall' = NoCall
    /\ sweepLog' = NoSweep
    /\ UNCHANGED <<now, users, subscriptions, channelUp, strictQuery,
                   deployVars, roleVars, channelVars>>

NextDelete == \E d \in DepIds : DeleteDeploymentCall(d)

SpecDelete == InitDelete /\ [][NextDelete]_vars

\* C18 (as claimed): when deleteDeployment has removed the record of a
\* deployment, the processes of its roles, its proxy configs and its log
\* entries are gone as well.
C18_DeletionCascades ==
    [][\A d \in DOMAIN deployments \ DOMAIN deployments' :
          /\ \A r \in Roles : pm2'[<<d, r>>] = "missing"
          /\ SitesOf(deployments[d]) \cap DOMAIN nginx' = {}
          /\ \A e \in logs' : e[1] # d
      ]_vars

\* C19 (as claimed): whatever step of deleteDeployment fails, every later
\* step is still attempted and the record is removed.
C19_EveryStepAttempted ==
    callResult.fn = "deleteDeployment" =>
        /\ <<"ports", "release">> \in callResult.attempted
        /\ <<"logs", "purge">> \in callResult.attempted
        /\ <<"record", "delete">> \in callResult.attempted
        /\ callArgs.id \notin DOMAIN deployments

(***************************************************************************)
(* SSHManager.executeCommand, observed on its own: the state of the        *)
(* connection and the outcome of the remote command are drawn when the     *)
(* call starts.                                                            *)
(***************************************************************************)
\* result.code of a command killed by a signal (null)
NoExitCode == -1

ExitCodes == (0..MaxExitCode) \cup {NoExitCode}

Outputs == {"", "text"}

\* What one call meets: this.connected, whether ssh.connect resolves if it
\* is called, whether ssh.execCommand resolves or the channel fails, and
\* the exit code and the output of the command if it runs.
CommandRuns ==
    [connected : BOOLEAN, connect : {"established", "refused"},
     exec : {"exit", "channel failure"},
     code : ExitCodes, stdout : Outputs, stderr : Outputs]

Thrown(message) == [fn |-> "executeCommand", threw |-> TRUE,
                    error |-> message, stdout |-> "", stderr |-> "",
                    code |-> NoExitCode, success |-> FALSE]

ExecuteCommand_throwing(run) ==
    IF ~run.connected /\ run.connect = "refused"
    THEN Thrown("SSH connection failed")
    ELSE IF run.exec = "channel failure" \/ run.code # 0
    THEN Thrown("Command execution failed")
    ELSE [fn |-> "executeCommand", threw |-> FALSE, error |-> "",
          stdout |-> run.stdout, stderr |-> run.stderr, code |-> run.code,
          success |-> TRUE]

\* SSHManager.executeCommand(command): ensureConnection, then
\* ssh.execCommand; the result carries stdout, stderr, code and
\* success: code === 0, and a rejected execCommand is rethrown.
ExecuteCommand(run) ==
    IF ~run.connected /\ run.connect = "refused"
    THEN Thrown("SSH connection failed")
    ELSE IF run.exec = "channel failure"
    THEN Thrown("Command execution failed")
    ELSE [fn |-> "executeCommand", threw |-> FALSE, error |-> "",
          stdout |-> run.stdout, stderr |-> run.stderr, code |-> run.code,
          success |-> run.code = 0]

InitExec ==
    /\ EmptyBackend
    /\ clawdBotImpl = "current"
    /\ requests = [d \in DepIds |-> NoRequest]
    /\ roleCall = NoRoleCall
    /\ roleResult = NoRoleResult
    /\ \E run \in CommandRuns :
          callArgs = [fn |-> "executeCommand", run |-> run]
    /\ callResult = NoCallResult
    /\ IdleChannel

RunExecuteCommand ==
    /\ callArgs.fn = "executeCommand"
    /\ callResult = NoCallResult
    /\ callResult' = ExecuteCommand(callArgs.run)
    /\ UNCHANGED <<lifecycleVars, deployVars, roleVars, callArgs,
                   channelVars>>

NextExec == RunExecuteCommand

SpecExec == InitExec /\ [][NextExec]_vars

\* C20: executeCommand throws only when the connection cannot be
\* established or the channel fails; for a command that ran it returns the
\* exit code and the captured stdout and stderr, with success exactly when
\* the code is 0, so a non-zero exit is returned with success = false.
C20_ThrowsOnlyOnChannelFailure ==
    callResult.fn = "executeCommand" =>
        LET run == callArgs.run
            reachable == run.connected \/ run.connect = "established"
            ran == reachable /\ run.exec = "exit"
        IN  /\ callResult.threw <=> ~ran
            /\ ran => /\ callResult.code = run.code
                      /\ callResult.stdout = run.stdout
                      /\ callResult.stderr = run.stderr
                      /\ callResult.success = (run.code = 0)

\* A command ran over a connection opened for it and exited non-zero with
\* output on stderr: the result is returned with success = false.
C20_Witness ==
    /\ callResult.fn = "executeCommand"
    /\ ~callArgs.run.connected
    /\ callArgs.run.code > 0
    /\ callArgs.run.stderr = "text"
    /\ ~callResult.threw
    /\ callResult.code = callArgs.run.code
    /\ ~callResult.success

(***************************************************************************)
(* SSHManager as the operations of the server use it: one instance         *)
(* (getSSHManager), whose connect, ensureConnection and executeCommand are *)
(* entered by several operations; each `await` is a point where another    *)
(* operation runs.                                                         *)
(***************************************************************************)
InitChannel ==
    /\ EmptyBackend
    /\ clawdBotImpl = "current"
    /\ requests = [d \in DepIds |-> NoRequest]
    /\ roleCall = NoRoleCall
    /\ roleResult = NoRoleResult
    /\ callArgs = NoCallArgs
    /\ callResult = NoCallResult
    /\ IdleChannel

Returned(op, value) == [pc |-> "idle", op |-> op, last |-> value]

\* await this.ssh.execCommand(command, ...) on the current connection: the
\* command is in flight if there is a connection, and execCommand rejects
\* if there is none
StartCommand(link) ==
    IF link = "up"
    THEN [pc |-> "running", op |-> "executeCommand", last |-> "none"]
    ELSE Returned("executeCommand", "threw")

\* connect(): `if (this.connected) return true`, else await ssh.connect
CallConnect(c) ==
    /\ callers[c].pc = "idle"
    /\ callers' = [callers EXCEPT ![c] =
          IF ssh.connected THEN Returned("connect", "true")
          ELSE [pc |-> "connecting", op |-> "connect", last |-> "none"]]
    /\ UNCHANGED <<lifecycleVars, deployVars, roleVars, fnVars, ssh>>

\* executeCommand(command): ensureConnection() connects only
\* `if (!this.connected)`, then the command is started
CallExecuteCommand(c) ==
    /\ callers[c].pc = "idle"
    /\ callers' = [callers EXCEPT ![c] =
          IF ssh.connected THEN StartCommand(ssh.link)
          ELSE [pc |-> "connecting", op |-> "executeCommand",
                last |-> "none"]]
    /\ UNCHANGED <<lifecycleVars, deployVars, roleVars, fnVars, ssh>>

\* await this.ssh.connect(this.config) resolves: this.connected = true
ConnectResolves(c) ==
    /\ callers[c].pc = "connecting"
    /\ ssh.opened < MaxOpens
    /\ ssh' = [connected |-> TRUE, link |-> "up", opened |-> ssh.opened + 1]
    /\ callers' = [callers EXCEPT ![c] =
          IF callers[c].op = "connect" THEN Returned("connect", "true")
          ELSE StartCommand("up")]
    /\ UNCHANGED <<lifecycleVars, deployVars, roleVars, fnVars>>

\* await this.ssh.connect(this.config) rejects: this.connected = false and
\* 'SSH connection failed' is thrown
ConnectRejects(c) ==
    /\ callers[c].pc = "connecting"
    /\ ssh' = [ssh EXCEPT !.connected = FALSE]
    /\ callers' = [callers EXCEPT ![c] = Returned(callers[c].op, "threw")]
    /\ UNCHANGED <<lifecycleVars, deployVars, roleVars, fnVars>>

\* execCommand resolves: the result is returned
CommandReturns(c) ==
    /\ callers[c].pc = "running"
    /\ ssh.link = "up"
    /\ callers' = [callers EXCEPT ![c] = Returned("executeCommand", "result")]
    /\ UNCHANGED <<lifecycleVars, deployVars, roleVars, fnVars, ssh>>

\* execCommand rejects because the connection is gone: the catch block
\* throws 'Command execution failed' and leaves this.connected as it is
CommandFails(c) ==
    /\ callers[c].pc = "running"
    /\ ssh.link # "up"
    /\ callers' = [callers EXCEPT ![c] = Returned("executeCommand", "threw")]
    /\ UNCHANGED <<lifecycleVars, deployVars, roleVars, fnVars, ssh>>

\* The established connection is lost (host or network); nothing in
\* SSHManager listens for it
ConnectionLost ==
    /\ ssh.link = "up"
    /\ ssh' = [ssh EXCEPT !.link = "lost"]
    /\ UNCHANGED <<lifecycleVars, deployVars, roleVars, fnVars, callers>>

\* disconnect(): if (this.connected) { dispose(); this.connected = false }
Disconnect ==
    /\ ssh.connected
    /\ ssh' = [ssh EXCEPT !.connected = FALSE, !.link = "none"]
    /\ UNCHANGED <<lifecycleVars, deployVars, roleVars, fnVars, callers>>

NextChannel ==
    \/ \E c \in Callers : CallConnect(c)
    \/ \E c \in Callers : CallExecuteCommand(c)
    \/ \E c \in Callers : ConnectResolves(c)
    \/ \E c \in Callers : ConnectRejects(c)
    \/ \E c \in Callers : CommandReturns(c)
    \/ \E c \in Callers : CommandFails(c)
    \/ ConnectionLost
    \/ Disconnect

SpecChannel == InitChannel /\ [][NextChannel]_vars

\* C21 (as claimed): once a connect() has succeeded (and the connection
\* has not been disposed of), every further connect() call returns true at
\* once, opens no connection and leaves the SSHManager as it is.
C21_ConnectIdempotent ==
    [][\A c \in Callers :
          (CallConnect(c) /\ ssh.opened >= 1 /\ ssh.link # "none") =>
              /\ callers'[c] = Returned("connect", "true")
              /\ ssh' = ssh
      ]_vars

\* C26 (as claimed): at most one remote command is in flight on the
\* channel at any time.
C26_OneCommandInFlight ==
    Cardinality({c \in Callers : callers[c].pc = "running"}) <= 1

\* C27 (as claimed): when the established connection has been lost, the
\* next executeCommand re-establishes the connection before it runs its
\* command.
C27_ReconnectsAfterLoss ==
    [][\A c \in Callers :
          (CallExecuteCommand(c) /\ ssh.link = "lost") =>
              callers'[c].pc = "connecting"
      ]_vars

(***************************************************************************)
(* SubdomainGenerator.generate and validate, character by character: the   *)
(* values of Math.random are drawn when the call starts.                   *)
(***************************************************************************)
\* this.chars = 'abcdefghijklmnopqrstuvwxyz0123456789'
Chars ==
    <<"a", "b", "c", "d", "e", "f", "g", "h", "i", "j", "k", "l", "m",
      "n", "o", "p", "q", "r", "s", "t", "u", "v", "w", "x", "y", "z",
      "0", "1", "2", "3", "4", "5", "6", "7", "8", "9">>

Letters == {Chars[i] : i \in 1..26}
Digits == {Chars[i] : i \in 27..36}

\* The values of Math.floor(Math.random() * this.chars.length) that are
\* observed: the first and the last letter, the first and the last digit
SampledIndexes == {0, 25, 26, 35}

\* The values of Math.floor(Math.random() * 26) that are observed
SampledLetterIndexes == {0, 25}

\* generate() and generate(8)
GenerateLengths == {SubdomainLength, FallbackLength}

GenerateChars_asDrawn(length, draws, letter) ==
    [i \in 1..length |-> Chars[draws[i] + 1]]

\* SubdomainGenerator.generate(length): the characters at the drawn
\* indexes, the first one replaced by the drawn letter if it is a digit
GenerateChars(length, draws, letter) ==
    LET subdomain == [i \in 1..length |-> Chars[draws[i] + 1]]
    IN  IF length > 0 /\ subdomain[1] \in Digits
        THEN [subdomain EXCEPT ![1] = Chars[letter + 1]]
        ELSE subdomain

\* SubdomainGenerator.validate(subdomain): /^[a-z][a-z0-9-]{2,62}$/
Validate(subdomain) ==
    /\ Len(subdomain) >= 3
    /\ Len(subdomain) <= 63
    /\ subdomain[1] \in Letters
    /\ \A i \in 2..Len(subdomain) :
           subdomain[i] \in Letters \cup Digits \cup {"-"}

InitGenerate ==
    /\ EmptyBackend
    /\ clawdBotImpl = "current"
    /\ requests = [d \in DepIds |-> NoRequest]
    /\ roleCall = NoRoleCall
    /\ roleResult = NoRoleResult
    /\ \E length \in GenerateLengths, letter \in SampledLetterIndexes :
       \E draws \in [1..length -> SampledIndexes] :
          callArgs = [fn |-> "generate", length |-> length,
                      draws |-> draws, letter |-> letter]
    /\ callResult = NoCallResult
    /\ IdleChannel

RunGenerate ==
    /\ callArgs.fn = "generate"
    /\ callResult = NoCallResult
    /\ callResult' = [fn |-> "generate",
                      subdomain |-> GenerateChars(callArgs.length,
                                        callArgs.draws, callArgs.letter)]
    /\ UNCHANGED <<lifecycleVars, deployVars, roleVars, callArgs,
                   channelVars>>

NextGenerate == RunGenerate

SpecGenerate == InitGenerate /\ [][NextGenerate]_vars

\* C22: every subdomain generate() returns, for the default length and for
\* the fallback length, is accepted by validate(): it starts with a
\* lowercase letter, consists of lowercase letters and digits only, and
\* has the requested length, which lies in the valid range.
C22_GeneratedIsValid ==
    callResult.fn = "generate" =>
        /\ Validate(callResult.subdomain)
        /\ callResult.subdomain[1] \in Letters
        /\ \A i \in 1..Len(callResult.subdomain) :
               callResult.subdomain[i] \in Letters \cup Digits
        /\ Len(callResult.subdomain) = callArgs.length

\* The first character drawn for a subdomain of the fallback length was a
\* digit, and the subdomain returned is valid.
C22_Witness ==
    /\ callResult.fn = "generate"
    /\ callArgs.length = FallbackLength
    /\ Chars[callArgs.draws[1] + 1] \in Digits
    /\ Validate(callResult.subdomain)

(***************************************************************************)
(* Properties of the order of the steps of deploy()                        *)
(***************************************************************************)
\* C23: whenever deploy() is about to call clawdBot.deploy for a role of a
\* request, and whenever a remote process of the request exists, the
\* record of the request is stored and names, for every requested role,
\* the allocated port and the PM2 process name.
C23_IdentifiersPersistedBeforeRpc ==
    \A d \in RequestIds :
        (\/ requests[d].pc \in Roles
         \/ \E r \in Roles : pm2[<<d, r>>] # "missing") =>
            /\ d \in DOMAIN deployments
            /\ \A r \in RequestedRoles(d) :
                   /\ AllocatedPortOf(deployments[d], r) # NoPort
                   /\ Pm2Name(deployments[d], r) # NULL

\* The frontend process of a two-role request is online while the RPC of
\* the backend has not been made yet, and the record names both roles'
\* ports and process names.
C23_Witness ==
    \E d \in RequestIds :
        /\ TwoRoles(d)
        /\ requests[d].pc = "backend"
        /\ pm2[<<d, "frontend">>] = "online"
        /\ pm2[<<d, "backend">>] = "missing"
        /\ AllocatedPortOf(deployments[d], "backend") # NoPort
        /\ Pm2Name(deployments[d], "backend") # NULL

(***************************************************************************)
(* NginxManager.createSubdomainConfig (with obtainSSLCertificate),         *)
(* observed on its own for a site that does not exist yet: how each remote *)
(* command ends is drawn when the call starts.                             *)
(***************************************************************************)
\* How one remote command ends: exit code 0, another exit code, or
\* executeCommand throws because the host cannot be reached
CommandEnds == {"ok", "failed", "unreachable"}

\* certbot prints one of the two success lines, prints neither, or the
\* host cannot be reached
CertbotEnds == {"issued", "refused", "unreachable"}

\* One call: ENABLE_SSL, the port, and how `systemctl stop nginx`, certbot,
\* `systemctl start nginx`, the `systemctl start nginx` of the catch block,
\* writeFile, `ln -sf`, `nginx -t` and `systemctl reload nginx` end if
\* they are run
ConfigRuns ==
    [enableSSL : BOOLEAN, port : PortRange,
     stop : CommandEnds, certbot : CertbotEnds, start : CommandEnds,
     recover : CommandEnds, write : CommandEnds, link : CommandEnds,
     test : CommandEnds, reload : CommandEnds]

\* The host before the call: nginx runs, and the site has no config file,
\* no symlink and no certificate
FreshHost ==
    [nginx |-> "running", cert |-> FALSE, file |-> "none", upstream |-> NoPort,
     linked |-> FALSE, tested |-> FALSE, reloaded |-> FALSE]

\* obtainSSLCertificate(fullDomain) on host h: <<what it returns, host>>.
\* The catch block starts nginx again and returns false; if that command
\* throws too, obtainSSLCertificate throws.
ObtainSSLCertificate(run, h) ==
    LET stopped == IF run.stop = "ok" THEN [h EXCEPT !.nginx = "stopped"] ELSE h
        issued == IF run.certbot = "issued"
                  THEN [stopped EXCEPT !.cert = TRUE] ELSE stopped
        started == IF run.start = "ok"
                   THEN [issued EXCEPT !.nginx = "running"] ELSE issued
        caught(host) ==
            IF run.recover = "unreachable" THEN <<"threw", host>>
            ELSE <<"failed",
                   IF run.recover = "ok"
                   THEN [host EXCEPT !.nginx = "running"] ELSE host>>
    IN  IF run.stop = "unreachable" THEN caught(h)
        ELSE IF run.certbot = "unreachable" THEN caught(stopped)
        ELSE IF run.start = "unreachable" THEN caught(issued)
        ELSE <<IF run.certbot = "issued" THEN "obtained" ELSE "failed",
               started>>

Protocol_secure(useHTTPS) == "https"

\* const protocol = useHTTPS ? 'https' : 'http', and the config written
Protocol(useHTTPS) == IF useHTTPS THEN "https" ELSE "http"

ConfigThrew(ssl, h) ==
    [fn |-> "createSubdomainConfig", threw |-> TRUE, url |-> "none",
     ssl |-> ssl, host |-> h]

\* The try block of createSubdomainConfig for the config `protocol`:
\* writeFile and `ln -sf` (their exit codes are not looked at), `nginx -t`
\* and `systemctl reload nginx` (a non-zero exit code is thrown).  A reload
\* of a stopped nginx fails.
WriteAndEnable(run, ssl, protocol, h) ==
    LET written == IF run.write = "ok"
                   THEN [h EXCEPT !.file = protocol, !.upstream = run.port]
                   ELSE h
        linked == IF run.link = "ok" THEN [written EXCEPT !.linked = TRUE]
                  ELSE written
        tested == [linked EXCEPT !.tested = TRUE]
        reloaded == [tested EXCEPT !.reloaded = TRUE]
    IN  IF run.write = "unreachable" THEN ConfigThrew(ssl, h)
        ELSE IF run.link = "unreachable" THEN ConfigThrew(ssl, written)
        ELSE IF run.test # "ok" THEN ConfigThrew(ssl, linked)
        ELSE IF run.reload # "ok" \/ tested.nginx # "running"
        THEN ConfigThrew(ssl, tested)
        ELSE [fn |-> "createSubdomainConfig", threw |-> FALSE,
              url |-> protocol, ssl |-> ssl, host |-> reloaded]

\* NginxManager.createSubdomainConfig(subdomain, port, isBackend)
CreateSubdomainConfig(run) ==
    IF ~run.enableSSL
    THEN WriteAndEnable(run, "off", Protocol(FALSE), FreshHost)
    ELSE LET obtained == ObtainSSLCertificate(run, FreshHost)
         IN  IF obtained[1] = "threw" THEN ConfigThrew("threw", obtained[2])
             ELSE WriteAndEnable(run, obtained[1],
                                 Protocol(obtained[1] = "obtained"),
                                 obtained[2])

InitConfig ==
    /\ EmptyBackend
    /\ clawdBotImpl = "current"
    /\ requests = [d \in DepIds |-> NoRequest]
    /\ roleCall = NoRoleCall
    /\ roleResult = NoRoleResult
    /\ \E run \in ConfigRuns :
          callArgs = [fn |-> "createSubdomainConfig", run |-> run]
    /\ callResult = NoCallResult
    /\ IdleChannel

RunCreateSubdomainConfig ==
    /\ callArgs.fn = "createSubdomainConfig"
    /\ callResult = NoCallResult
    /\ callResult' = CreateSubdomainConfig(callArgs.run)
    /\ UNCHANGED <<lifecycleVars, deployVars, roleVars, callArgs,
                   channelVars>>

NextConfig == RunCreateSubdomainConfig

SpecConfig == InitConfig /\ [][NextConfig]_vars

\* C24 (as claimed): when createSubdomainConfig has ended, by a return or
\* by a throw, the site is linked and reloaded only if `nginx -t` passed,
\* and the host has neither a config file that is not linked nor a linked
\* site that is not validated and reloaded.
C24_NoPartialEnablement ==
    callResult.fn = "createSubdomainConfig" =>
        LET h == callResult.host
        IN  /\ h.linked => h.tested
            /\ h.reloaded => h.tested
            /\ h.file # "none" => h.linked
            /\ h.linked => (h.tested /\ h.reloaded)

\* C25: with TLS enabled, when obtainSSLCertificate reports that no
\* certificate was obtained and the commands that write, link, test and
\* reload the config succeed on a running nginx, createSubdomainConfig
\* returns success with an http URL and the HTTP vhost for the same port is
\* written, linked and reloaded; an https URL is returned only when the
\* certificate was issued.
C25_HttpFallback ==
    callResult.fn = "createSubdomainConfig" =>
        LET run == callArgs.run
            h == callResult.host
        IN  /\ (/\ run.enableSSL
                /\ callResult.ssl = "failed"
                /\ h.nginx = "running"
                /\ run.write = "ok" /\ run.link = "ok"
                /\ run.test = "ok" /\ run.reload = "ok") =>
                   /\ ~callResult.threw
                   /\ callResult.url = "http"
                   /\ h.file = "http" /\ h.upstream = run.port
                   /\ h.linked /\ h.reloaded
            /\ callResult.url = "https" =>
                   /\ run.enableSSL
                   /\ run.certbot = "issued"
                   /\ h.cert

\* certbot refused the certificate, and the call returned the http URL of
\* a vhost that is written, linked and reloaded.
C25_Witness ==
    /\ callResult.fn = "createSubdomainConfig"
    /\ callArgs.run.enableSSL
    /\ callArgs.run.certbot = "refused"
    /\ ~callResult.threw
    /\ callResult.url = "http"
    /\ callResult.host.file = "http"
    /\ callResult.host.reloaded

(***************************************************************************)
(* SubscriptionMonitor.checkExpiredSubscriptions, observed on its own:     *)
(* records in every operational status, users with and without a paid      *)
(* grant, and a store that can reject the update of a grant.               *)
(***************************************************************************)
\* The statuses deploy(), stop and restart leave in a record; 'deploying'
\* is the status while deploy() is in flight
OperationalStatuses == {"deploying", "deployed", "failed", "stopped"}

\* The users of the scenario: those of `paid` bought the starter plan and
\* hold an active grant that ends on day SubscriptionEnd, the others
\* registered and never paid
SweepUsersOf(paid) ==
    [u \in Users |-> IF u \in paid THEN InitialUsers["u2"] ELSE InitialUsers["u1"]]

SweepGrantsOf(paid) ==
    [u \in Users |-> IF u \in paid THEN InitialSubscriptions["u2"]
                     ELSE InitialSubscriptions["u1"]]

\* The PM2 table that goes with the records: the processes of a stopped
\* record are stopped; of a two-role record that is failed or still
\* deploying the backend process does not exist; the others are online
SweepProcs(deps) ==
    [h \in Handles |->
        IF Pm2Name(deps[h[1]], h[2]) = NULL THEN "missing"
        ELSE IF deps[h[1]].status = "stopped" THEN "stopped"
        ELSE IF deps[h[1]].status \in {"failed", "deploying"} /\ h[2] = "backend"
        THEN "missing"
        ELSE "online"]

InitSweep ==
    /\ now \in {0, TickDays}
    /\ \E paid \in SUBSET Users :
          /\ users = SweepUsersOf(paid)
          /\ subscriptions = SweepGrantsOf(paid)
    /\ \E owner \in [DepIds -> Users], status \in [DepIds -> OperationalStatuses] :
          deployments = [d \in DepIds |->
                            DeploymentDoc(d, owner[d], d = 1, status[d])]
    /\ pm2 = SweepProcs(deployments)
    /\ nginx = InitialSites(deployments)
    /\ logs = InitialLogs(deployments)
    /\ channelUp \in BOOLEAN
    /\ strictQuery \in BOOLEAN
    /\ sentDeadline = [d \in DepIds |-> NoDate]
    /\ lastCall = NoCall
    /\ sweepLog = NoSweep
    /\ clawdBotImpl = "earlier"
    /\ requests = [d \in DepIds |-> Done("none", NoSubdomain)]
    /\ roleCall = NoRoleCall
    /\ roleResult = NoRoleResult
    /\ callArgs = NoCallArgs
    /\ callResult = NoCallResult
    /\ IdleChannel

\* One run of the monitor's timer callback; Subscription.updateStatus
\* rejects for the grants of the users of `broken`
MonitorSweepCall ==
    LET S0 == [deps |-> deployments, procs |-> pm2, sites |-> nginx,
               logs |-> logs,
               sent |-> <<>>,
               deadline |-> sentDeadline,
               users |-> users, subs |-> subscriptions,
               enforced |-> {}, deleting |-> {}]
    IN  \E broken \in SUBSET Users :
        \E S \in {CheckExpiredSubscriptions(S0, now, strictQuery, channelUp,
                                             broken)} :
        /\ deployments' = S.deps
        /\ pm2' = S.procs
        /\ nginx' = S.sites
        /\ logs' = S.logs
        /\ users' = S.users
        /\ subscriptions' = S.subs
        /\ sentDeadline' = S.deadline
        /\ sweepLog' = [ran |-> TRUE, enforced |-> S.enforced,
                        sent |-> S.sent, deleting |-> S.deleting]
        /\ callArgs' = [fn |-> "checkExpiredSubscriptions", broken |-> broken]
        /\ lastCall' = NoCall
        /\ UNCHANGED <<now, channelUp, strictQuery, deployVars, roleVars,
                       callResult, channelVars>>

NextSweep == MonitorSweepCall

SpecSweep == InitSweep /\ [][NextSweep]_vars

\* C28 (as claimed): a sweep leaves a deployment whose status is
\* 'deploying' as it is: the record is not written and its processes are
\* not stopped.
C28_DeployingSkipped ==
    [][MonitorSweepCall =>
        \A d \in DOMAIN deployments :
            deployments[d].status = "deploying" =>
                /\ d \in DOMAIN deployments'
                /\ deployments'[d] = deployments[d]
                /\ \A r \in Roles : pm2'[<<d, r>>] = pm2[<<d, r>>]
      ]_vars

\* C29 (as claimed): a failure while one user's grant is processed does
\* not end the sweep: the expired grant of every other user is set to
\* expired, with the user's subscription_status, in the same sweep.
C29_SweepGoesOn ==
    [][MonitorSweepCall =>
        \A u \in Users :
            (ExpiredGrant(subscriptions[u], now) /\ u \notin callArgs'.broken) =>
                /\ subscriptions'[u].status = "expired"
                /\ users'[u].subscription_status = "expired"
      ]_vars

(***************************************************************************)
(* ClawdBotService.verifyDeployment of the current module, step by step,   *)
(* and the return of deploy that follows it.  The call is observed from    *)
(* the point where deploy has started the role and knows its actual port.  *)
(***************************************************************************)
\* for (let i = 0; i < 3; i++) and if (i < 2)
VerifyAttempts == 3
VerifyDelays == 2

\* What getPM2Processes shows of the process, or the call throws
VerifyObservations == Pm2Statuses \cup {"throws"}

\* What one checkPortInUse(port) gives: `lsof` printed IN_USE or FREE, or
\* the channel failed and the call throws
CheckOutcomes == {"IN_USE", "FREE", "throws"}

\* return { success: false, error }
VerifyFailure(r, error) ==
    [r EXCEPT !.pc = "returned", !.success = FALSE, !.error = error]

\* Where the loop goes after the check of iteration i
AfterCheck_noBreak(i, portInUse) ==
    IF i < VerifyDelays THEN "waiting" ELSE "looping"

\* if (portInUse) break;  if (i < 2) { ...; await setTimeout(2000) }
AfterCheck(i, portInUse) ==
    IF portInUse THEN "checked"
    ELSE IF i < VerifyDelays THEN "waiting" ELSE "looping"

\* i++ and the test i < 3 of the for statement
NextIteration(i) == IF i + 1 < VerifyAttempts THEN "checking" ELSE "checked"

InitVerify ==
    /\ EmptyBackend
    /\ clawdBotImpl = "current"
    /\ requests = [d \in DepIds |-> NoRequest]
    /\ roleCall = NoRoleCall
    /\ roleResult = NoRoleResult
    /\ \E port \in PortRange, actualPort \in PortRange :
          callArgs = [fn |-> "verifyDeployment", port |-> port,
                      actualPort |-> actualPort]
    /\ callResult = NoCallResult
    /\ IdleChannel

\* const processes = await this.ssh.getPM2Processes(); process = find(...);
\* the two early returns and the catch of verifyDeployment
VerifyStart ==
    /\ callArgs.fn = "verifyDeployment"
    /\ callResult = NoCallResult
    /\ \E seen \in VerifyObservations :
          LET r == [fn |-> "verifyDeployment", pc |-> "checking",
                    status |-> seen, i |-> 0, portInUse |-> FALSE,
                    trace |-> <<>>, success |-> FALSE, error |-> "none"]
          IN  callResult' =
                  CASE seen = "throws" -> VerifyFailure(r, "Verification error")
                    [] seen = "missing" -> VerifyFailure(r, "not found")
                    [] seen = "online" -> r
                    [] OTHER -> VerifyFailure(r, "not online")
    /\ UNCHANGED <<lifecycleVars, deployVars, roleVars, callArgs, channelVars>>

\* portInUse = await this.ssh.checkPortInUse(port); if (portInUse) break;
CheckPortInUse ==
    /\ callResult.fn = "verifyDeployment"
    /\ callResult.pc = "checking"
    /\ \E out \in CheckOutcomes :
          LET r == [callResult EXCEPT !.trace = Append(@, out)]
          IN  callResult' =
                  IF out = "throws" THEN VerifyFailure(r, "Verification error")
                  ELSE [r EXCEPT !.portInUse = (out = "IN_USE"),
                                 !.pc = AfterCheck(r.i, out = "IN_USE")]
    /\ UNCHANGED <<lifecycleVars, deployVars, roleVars, callArgs, channelVars>>

\* await new Promise(resolve => setTimeout(resolve, 2000))
Delay ==
    /\ callResult.fn = "verifyDeployment"
    /\ callResult.pc = "waiting"
    /\ callResult' = [callResult EXCEPT !.trace = Append(@, "delay"),
                                        !.pc = "looping"]
    /\ UNCHANGED <<lifecycleVars, deployVars, roleVars, callArgs, channelVars>>

\* i++; i < 3
LoopAgain ==
    /\ callResult.fn = "verifyDeployment"
    /\ callResult.pc = "looping"
    /\ callResult' = [callResult EXCEPT !.i = @ + 1,
                                        !.pc = NextIteration(callResult.i)]
    /\ UNCHANGED <<lifecycleVars, deployVars, roleVars, callArgs, channelVars>>

\* if (!portInUse) return { success: false, error: 'Port ... not yet active' }
\* return { success: true, status, uptime, memory, cpu }
VerifyReturns ==
    /\ callResult.fn = "verifyDeployment"
    /\ callResult.pc = "checked"
    /\ callResult' =
          IF ~callResult.portInUse
          THEN VerifyFailure(callResult, "not yet active")
          ELSE [callResult EXCEPT !.pc = "returned", !.success = TRUE]
    /\ UNCHANGED <<lifecycleVars, deployVars, roleVars, callArgs, channelVars>>

\* if (!verificationResult.success) return { success: true, ..., note }
\* return { success: true, ... }: the rest of deploy for a role that was
\* built, is online and whose port was detected by the first call
DeployReturns ==
    /\ callResult.fn = "verifyDeployment"
    /\ callResult.pc = "returned"
    /\ roleResult' =
          CurrentDeploy("envVars", callArgs.port,
                        [channel |-> TRUE, rpc |-> "SUCCESS", pm2 |-> "online",
                         detect1 |-> callArgs.actualPort, detect2 |-> NoPort,
                         envPort |-> NoPort, verify |-> callResult.success])
    /\ callResult' = [callResult EXCEPT !.pc = "done"]
    /\ UNCHANGED <<lifecycleVars, deployVars, roleCall, callArgs, channelVars>>

NextVerify ==
    \/ VerifyStart
    \/ CheckPortInUse
    \/ Delay
    \/ LoopAgain
    \/ VerifyReturns
    \/ DeployReturns

SpecVerify == InitVerify /\ [][NextVerify]_vars

LogDoc(seq, createdAt) == [seq |-> seq, createdAt |-> createdAt]

NoLogRun == [fn |-> "log", clock |-> 0, emitted |-> 0, pending |-> {}]
NoLogStore == [fn |-> "log", stored |-> <<>>]

InitLog ==
    /\ EmptyBackend
    /\ clawdBotImpl \in ClawdBotImpls
    /\ requests = [d \in DepIds |-> NoRequest]
    /\ roleCall = NoRoleCall
    /\ roleResult = NoRoleResult
    /\ callArgs = NoLogRun
    /\ callResult = NoLogStore
    /\ IdleChannel

\* log(message, type) / logMessage(message, type):
\* DeploymentLog.create(deploymentId, message, type).catch(console.error)
EmitLog ==
    /\ callArgs.fn = "log"
    /\ callArgs.emitted < MaxLogs
    /\ callArgs' = [callArgs EXCEPT
                      !.emitted = @ + 1,
                      !.pending = @ \cup {LogDoc(callArgs.emitted + 1,
                                                 callArgs.clock)}]
    /\ UNCHANGED <<lifecycleVars, deployVars, roleVars, callResult, channelVars>>

\* The clock of the process moves on by a millisecond
ClockTick ==
    /\ callArgs.fn = "log"
    /\ callArgs.clock < MaxClock
    /\ callArgs' = [callArgs EXCEPT !.clock = @ + 1]
    /\ UNCHANGED <<lifecycleVars, deployVars, roleVars, callResult, channelVars>>

\* await log.save() of one pending create completes: the document is stored
SaveCompletes ==
    /\ callArgs.fn = "log"
    /\ \E doc \in callArgs.pending :
          /\ callArgs' = [callArgs EXCEPT !.pending = @ \ {doc}]
          /\ callResult' = [callResult EXCEPT !.stored = Append(@, doc)]
    /\ UNCHANGED <<lifecycleVars, deployVars, roleVars, channelVars>>

NextLog ==
    \/ EmitLog
    \/ ClockTick
    \/ SaveCompletes

SpecLog == InitLog /\ [][NextLog]_vars

\* this.find({ deployment_id }).sort({ createdAt: 1 }): the results the
\* store can give, the stored documents by ascending createdAt with
\* documents of equal createdAt in any order
FindByDeploymentId(stored) ==
    {read \in Reorderings(stored) :
        \A i, j \in 1..Len(read) :
            i < j => read[i].createdAt <= read[j].createdAt}

\* C31 (as claimed): once the saves of the emitted messages have completed,
\* in whatever order, the log entries read for the deployment are in the
\* order in which their messages were emitted.
C31_LogsInEmissionOrder ==
    (callResult.fn = "log" /\ callArgs.pending = {}) =>
        \A read \in FindByDeploymentId(callResult.stored) :
            \A i, j \in 1..Len(read) : i < j => read[i].seq < read[j].seq

\* C32 (as claimed): after a sweep in which no store call failed, for every
\* user without a usable grant: if the user's paid grant expired, every
\* deployment of the user is suspended with a delete deadline; otherwise
\* exactly the deployments beyond the first are suspended with a delete
\* deadline and the first keeps its status.
C32_EnforcedLimits ==
    [][(MonitorSweepCall /\ callArgs'.broken = {}) =>
        \A u \in Users :
            (SelectedUser(users[u]) \/ ExpiredGrant(subscriptions[u], now)) =>
                LET list == FindByUser(deployments, u)
                    suspended(d) ==
                        /\ d \in DOMAIN deployments'
                        /\ deployments'[d].status = "suspended"
                        /\ deployments'[d].delete_scheduled_at # NoDate
                IN  IF /\ users'[u].subscription_status = "expired"
                       /\ users'[u].current_plan # "free"
                    THEN \A i \in 1..Len(list) : suspended(list[i])
                    ELSE /\ \A i \in 2..Len(list) : suspended(list[i])
                         /\ Len(list) >= 1 =>
                               /\ list[1] \in DOMAIN deployments'
                               /\ deployments'[list[1]].status
                                      = deployments[list[1]].status
      ]_vars

\* C33 (as claimed): a sweep marks a deployment suspended only if the stop
\* of that deployment succeeded for every present role: a record that the
\* sweep turned to suspended has no process left online, and its
\* stopDeployment reported success.
C33_SuspendedOnlyAfterStop ==
    [][MonitorSweepCall =>
        \A d \in DOMAIN deployments :
            (/\ deployments[d].status # "suspended"
             /\ d \in DOMAIN deployments'
             /\ deployments'[d].status = "suspended") =>
                /\ StopOp(deployments, pm2, channelUp, d).ret.success
                /\ \A r \in PresentRoles(deployments[d]) :
                      pm2'[<<d, r>>] # "online"
      ]_vars

\* C34 (as claimed): a deploy request of a user who has no active,
\* unexpired grant, over the HTTP route or the WebSocket entry point,
\* creates no deployment record and no remote process: every record and
\* every process of a request belongs to a user with such a grant.
C34_NoGrantNoDeploy ==
    \A d \in RequestIds :
        (d \in DOMAIN deployments \/ \E r \in Roles : pm2[<<d, r>>] # "missing")
            => /\ d \in DOMAIN deployments
               /\ subscriptions[deployments[d].user_id].status = "active"
               /\ ~(now > subscriptions[deployments[d].user_id].current_end)

(***************************************************************************)
(* ClawdBotService.detectActualPort of the current module, method by       *)
(* method.  What the host answers to a method is drawn when the method     *)
(* runs.                                                                   *)
(***************************************************************************)
\* The methods in the order of the function body
DetectionMethods == <<"lsof", "netstat", "logs", "env">>

\* What the two commands of a socket inspection give: whether `pm2 jlist`
\* printed a PID, and the ports the listing printed; or a command threw
ListedPorts == {80} \cup PortRange
SocketAnswers ==
    {[threw |-> TRUE, pid |-> FALSE, listed |-> <<>>]} \cup
    [threw : {FALSE}, pid : BOOLEAN,
     listed : UNION {[1..n -> ListedPorts] : n \in 0..MaxListed}]

\* ports = stdout.split('\n').map(parseInt).filter(p => p >= 3000 && p <= 9000);
\* if (ports.length > 0) return ports[0]
FirstListed(answer) ==
    LET at == {i \in 1..Len(answer.listed) : InScanRange(answer.listed[i])}
    IN  IF answer.threw \/ ~answer.pid \/ at = {} THEN NoPort
        ELSE answer.listed[CHOOSE i \in at : \A j \in at : i <= j]

\* Where detectActualPort goes after method number k produced `port`
AfterMethod_noReturn(k, port) ==
    IF k < Len(DetectionMethods) THEN DetectionMethods[k + 1] ELSE "returned"

\* `return actualPort` inside a method, the fall through to the next one,
\* `return null` after the last
AfterMethod(k, port) ==
    IF port # NoPort THEN "returned"
    ELSE IF k < Len(DetectionMethods) THEN DetectionMethods[k + 1]
    ELSE "returned"

\* The call after method k answered `answer` and produced `port`
Detected(r, k, answer, port) ==
    [r EXCEPT !.pc = AfterMethod(k, port),
              !.ran = Append(@, [method |-> DetectionMethods[k], port |-> port]),
              !.last = answer,
              !.port = port]

InitDetect ==
    /\ EmptyBackend
    /\ clawdBotImpl = "current"
    /\ requests = [d \in DepIds |-> NoRequest]
    /\ roleCall = NoRoleCall
    /\ roleResult = NoRoleResult
    /\ callArgs = [fn |-> "detectActualPort"]
    /\ callResult = [fn |-> "detectActualPort", pc |-> DetectionMethods[1],
                     ran |-> <<>>, last |-> "none", port |-> NoPort]
    /\ IdleChannel

\* METHOD 1: lsof
DetectByLsof ==
    /\ callResult.fn = "detectActualPort"
    /\ callResult.pc = "lsof"
    /\ \E answer \in SocketAnswers :
          callResult' = Detected(callResult, 1, answer, FirstListed(answer))
    /\ UNCHANGED <<lifecycleVars, deployVars, roleVars, callArgs, channelVars>>

\* METHOD 1B: netstat
DetectByNetstat ==
    /\ callResult.fn = "detectActualPort"
    /\ callResult.pc = "netstat"
    /\ \E answer \in SocketAnswers :
          callResult' = Detected(callResult, 2, answer, FirstListed(answer))
    /\ UNCHANGED <<lifecycleVars, deployVars, roleVars, callArgs, channelVars>>

\* METHOD 2: PM2 logs; a thrown command counts as one without success
DetectByLogs ==
    /\ callResult.fn = "detectActualPort"
    /\ callResult.pc = "logs"
    /\ \E success \in BOOLEAN, stdout \in LogOutputs :
          callResult' = Detected(callResult, 3,
                                 [success |-> success, stdout |-> stdout],
                                 ScanLogs(success, stdout))
    /\ UNCHANGED <<lifecycleVars, deployVars, roleVars, callArgs, channelVars>>

\* METHOD 3: PM2 environment, and `return null` when it finds no port
DetectByEnv ==
    /\ callResult.fn = "detectActualPort"
    /\ callResult.pc = "env"
    /\ \E envPort \in EnvPortOutputs :
          callResult' = Detected(callResult, 4, [envPort |-> envPort],
                                 EnvPortLookup([envPort |-> envPort]))
    /\ UNCHANGED <<lifecycleVars, deployVars, roleVars, callArgs, channelVars>>

NextDetect ==
    \/ DetectByLsof
    \/ DetectByNetstat
    \/ DetectByLogs
    \/ DetectByEnv

SpecDetect == InitDetect /\ [][NextDetect]_vars

\* C35: the methods of detectActualPort run in the order PID socket
\* inspection, alternate socket inspection, log scan, PORT environment
\* value; no method runs after one that produced a port; the result is the
\* port of the last method run, a port in 3000..9000, and it is null only
\* if all four methods ran and none produced a port.
C35_OrderedShortCircuit ==
    callResult.fn = "detectActualPort" =>
        LET ran == callResult.ran
        IN  /\ Len(ran) <= 4
            /\ \A k \in 1..Len(ran) :
                  /\ ran[k].method = <<"lsof", "netstat", "logs", "env">>[k]
                  /\ k < Len(ran) => ran[k].port = NoPort
                  /\ ran[k].port # NoPort =>
                        (ran[k].port >= 3000 /\ ran[k].port <= 9000)
            /\ (Len(ran) > 0 /\ ran[Len(ran)].port # NoPort)
                  => callResult.pc = "returned"
            /\ callResult.pc = "returned" =>
                  /\ Len(ran) > 0
                  /\ callResult.port = ran[Len(ran)].port
                  /\ callResult.port = NoPort =>
                        /\ Len(ran) = 4
                        /\ ~(/\ callResult.last.envPort >= 3000
                             /\ callResult.last.envPort <= 9000)

\* The two socket inspections found nothing, the log scan produced a port
\* and the environment was not looked at.
C35_Witness ==
    /\ callResult.fn = "detectActualPort"
    /\ callResult.pc = "returned"
    /\ Len(callResult.ran) = 3
    /\ callResult.port # NoPort
    /\ callResult.port = ScanLogs(callResult.last.success, callResult.last.stdout)

(***************************************************************************)
(* Steps 6 and 7 of DeploymentService.deploy seen as calls: the arguments   *)
(* deploy() passes to clawdBot.deploy, and the parameters of the module    *)
(* in use they are bound to.                                               *)
(***************************************************************************)
\* deployment.env_vars of the record, and the log helper of deploy()
EnvVarsOfRecord == "env_vars"
LogHelper == "log"

\* async deploy(deploymentId, repoUrl, port, domain, appName, envVars = {}, onLog)
\* async deploy(deploymentId, repoUrl, port, domain, appName, onLog)
DeployParameters(impl) ==
    IF impl = "current"
    THEN <<"deploymentId", "repoUrl", "port", "domain", "appName", "envVars",
           "onLog">>
    ELSE <<"deploymentId", "repoUrl", "port", "domain", "appName", "onLog">>

\* this.clawdBot.deploy(deploymentId, deployment.<role>_repo, <role>_port,
\*                      `${subdomain}[-api].${BASE_DOMAIN}`,
\*                      deployment.pm2_<role>_name, log)
DeployArguments(d, doc, role) ==
    <<d,
      IF role = "frontend" THEN doc.frontend_repo ELSE doc.backend_repo,
      PortOf(doc, role),
      <<doc.subdomain, role>>,
      Pm2Name(doc, role),
      LogHelper>>

\* The value each parameter has in the call: the argument in its position;
\* without one, envVars is the default {} and onLog is undefined
BindParameters(params, args) ==
    [p \in {params[i] : i \in 1..Len(params)} |->
        LET i == CHOOSE k \in 1..Len(params) : params[k] = p
        IN  IF i <= Len(args) THEN <<"passed", args[i]>>
            ELSE IF p = "envVars" THEN <<"default", "{}">>
            ELSE <<"default", "undefined">>]

InitRpc ==
    /\ now = 0
    /\ users = InitialUsers
    /\ subscriptions = InitialSubscriptions
    /\ \E d \in DepIds, owner \in Users, twoRoles \in BOOLEAN,
          frontend_port \in PortRange, backend_port \in PortRange :
          deployments = [x \in {d} |->
              [NewDeployment(owner, <<SubdomainLength, d>>, twoRoles) EXCEPT
                  !.frontend_port = frontend_port,
                  !.backend_port = IF twoRoles THEN backend_port ELSE NoPort,
                  !.pm2_frontend_name = "set",
                  !.pm2_backend_name = IF twoRoles THEN "set" ELSE NULL]]
    /\ pm2 = [h \in Handles |-> "missing"]
    /\ nginx = <<>>
    /\ logs = {}
    /\ channelUp = TRUE
    /\ strictQuery = TRUE
    /\ sentDeadline = [d \in DepIds |-> NoDate]
    /\ lastCall = NoCall
    /\ sweepLog = NoSweep
    /\ clawdBotImpl \in ClawdBotImpls
    /\ requests = [d \in DepIds |-> NoRequest]
    /\ roleCall = NoRoleCall
    /\ roleResult = NoRoleResult
    /\ callArgs = [fn |-> "deploy", called |-> {}]
    /\ callResult = NoCallResult
    /\ IdleChannel

\* frontendResult = await this.clawdBot.deploy(...) and
\* backendResult = await this.clawdBot.deploy(...), in this order
CallRoleDeploy(role) ==
    /\ callArgs.fn = "deploy"
    /\ role \notin callArgs.called
    /\ role = "backend" => "frontend" \in callArgs.called
    /\ \E d \in DOMAIN deployments :
          /\ role \in PresentRoles(deployments[d])
          /\ callResult' =
                [fn |-> "deploy", role |-> role, id |-> d,
                 bound |-> BindParameters(DeployParameters(clawdBotImpl),
                               DeployArguments(d, deployments[d], role))]
    /\ callArgs' = [callArgs EXCEPT !.called = @ \cup {role}]
    /\ UNCHANGED <<lifecycleVars, deployVars, roleVars, channelVars>>

NextRpc == \E role \in Roles : CallRoleDeploy(role)

SpecRpc == InitRpc /\ [][NextRpc]_vars

\* C36 (as claimed): in the call deploy() makes for a role, the wrapper's
\* parameters hold the role's repository URL, its allocated port, its
\* target domain, its process name and the deployment's environment
\* variables.
C36_ArgumentsInPosition ==
    callResult.fn = "deploy" =>
        LET doc == deployments[callResult.id]
            role == callResult.role
            bound == callResult.bound
        IN  /\ bound["repoUrl"] = <<"passed", "repo">>
            /\ bound["port"] = <<"passed", PortOf(doc, role)>>
            /\ bound["domain"] = <<"passed", <<doc.subdomain, role>> >>
            /\ bound["appName"] = <<"passed", "set">>
            /\ "envVars" \in DOMAIN bound
            /\ bound["envVars"] = <<"passed", EnvVarsOfRecord>>

\* C37 (as claimed): in a deploy that requests both roles, the frontend
\* port and the backend port that findMultipleFreePorts allocated and
\* deploy() stored are distinct.
C37_DistinctPorts ==
    \A d \in RequestIds :
        (/\ d \in DOMAIN deployments
         /\ deployments[d].frontend_allocated_port # NoPort
         /\ deployments[d].backend_allocated_port # NoPort)
            => deployments[d].frontend_allocated_port
                   # deployments[d].backend_allocated_port

(***************************************************************************)
(* DELETE /api/deployments/:id while deploy() of the same record is at its *)
(* role steps.  Neither the route nor deleteDeployment looks at the status *)
(* of the record; deploy() goes on with the `deployment` object, the ports *)
(* and the subdomain it holds in local variables.                          *)
(***************************************************************************)
\* The delete request arrives after deploy() has stored the ports
DeleteInFlight(d) ==
    /\ requests[d].pc \in Roles \cup {"finish"}
    /\ d \in DOMAIN deployments
    /\ callArgs = NoCallArgs
    /\ \E env \in DeleteEnvs :
       \E r \in {DeleteOp(deployments, pm2, nginx, logs, env, d)} :
           /\ deployments' = r.deps
           /\ pm2' = r.procs
           /\ nginx' = r.sites
           /\ logs' = r.logs
           /\ callArgs' = [fn |-> "deleteDeployment", id |-> d, env |-> env,
                           doc |-> deployments[d]]
           /\ callResult' = [fn |-> "deleteDeployment", threw |-> r.threw,
                             attempted |-> r.attempted]
    /\ UNCHANGED <<now, users, subscriptions, channelUp, strictQuery,
                   sentDeadline, lastCall, sweepLog, deployVars, roleVars,
                   channelVars>>

\* Step 6 or 7 of deploy() for a record that is gone: clawdBot.deploy and
\* createSubdomainConfig run as for any record, the log helper stores its
\* entries, and Deployment.update finds no record to change.
DeployRoleDeleted(d, role) ==
    /\ requests[d].pc = role
    /\ d \notin DOMAIN deployments
    /\ callArgs.fn = "deleteDeployment"
    /\ callArgs.id = d
    /\ LET doc == callArgs.doc
           allocated == PortOf(doc, role)
           next == IF role = "frontend" /\ doc.backend_repo # NULL
                   THEN "backend" ELSE "finish"
       IN  \E env \in DeployEnvs(allocated, Listening(deployments, pm2)),
              outcome \in NginxOutcomes :
            LET result == ClawdBotDeploy(clawdBotImpl, "onLog", allocated, env)
                started == /\ env.channel
                           /\ clawdBotImpl = "earlier"
                           /\ env.rpc = "SUCCESS"
            IN  /\ pm2' = [pm2 EXCEPT ![<<d, role>>] =
                              IF started THEN env.pm2 ELSE @]
                /\ nginx' = IF result.success
                            THEN [s \in DOMAIN nginx \cup {<<doc.subdomain, role>>}
                                    |-> IF s = <<doc.subdomain, role>>
                                        THEN result.actualPort ELSE nginx[s]]
                            ELSE nginx
                /\ logs' = logs \cup LogsOf(d,
                              ClawdBotLogs(clawdBotImpl, "onLog", allocated, env)
                              \cup DeployRoleLogs(result, outcome))
                /\ requests' = [requests EXCEPT ![d] =
                      IF ~result.success
                      THEN [@ EXCEPT !.pc = next, ![role] = "failed"]
                      ELSE IF outcome # "ok"
                      THEN Done(IF role = "frontend" THEN "frontend proxy"
                                ELSE "backend proxy", NoSubdomain)
                      ELSE [@ EXCEPT !.pc = next, ![role] = "success"]]
    /\ UNCHANGED <<now, users, subscriptions, deployments, channelUp,
                   strictQuery, sentDeadline, lastCall, sweepLog,
                   clawdBotImpl, callVars>>

\* Step 8 of deploy() for a record that is gone: Deployment.updateStatus
\* finds no record, the log helper stores its entry, and step 9 ends
\* deploy() (finalDeployment is null)
FinishDeployDeleted(d) ==
    /\ requests[d].pc = "finish"
    /\ d \notin DOMAIN deployments
    /\ logs' = logs \cup LogsOf(d,
            IF OverallSuccess(requests[d].frontend, requests[d].backend)
            THEN {<<"success", "other">>} ELSE {<<"warning", "other">>})
    /\ requests' = [requests EXCEPT ![d] = Done("none", NoSubdomain)]
    /\ UNCHANGED <<now, users, subscriptions, deployments, pm2, channelUp,
                   strictQuery, sentDeadline, lastCall, sweepLog, nginx,
                   clawdBotImpl, callVars>>

NextCancel ==
    \/ \E d \in RequestIds, u \in Users, entry \in Entries : ReceiveDeploy(d, u, entry)
    \/ \E d \in RequestIds : CreateRecord(d)
    \/ \E d \in RequestIds : AllocatePorts(d)
    \/ \E d \in RequestIds, role \in Roles :
          d \in DOMAIN deployments /\ DeployRole(d, role)
    \/ \E d \in RequestIds : d \in DOMAIN deployments /\ FinishDeploy(d)
    \/ \E d \in RequestIds : DeleteInFlight(d)
    \/ \E d \in RequestIds, role \in Roles : DeployRoleDeleted(d, role)
    \/ \E d \in RequestIds : FinishDeployDeleted(d)

SpecCancel == InitDeploy /\ [][NextCancel]_vars

\* C38 (as claimed): once deleteDeployment of a deployment whose deploy()
\* is in flight has completed, the deployment has no record, no remote
\* process, no proxy config and no log entry, whatever steps of that
\* deploy() follow.
C38_NothingLeftAfterDelete ==
    (/\ callArgs.fn = "deleteDeployment"
     /\ callResult.fn = "deleteDeployment"
     /\ ~callResult.threw) =>
        /\ callArgs.id \notin DOMAIN deployments
        /\ \A r \in Roles : pm2[<<callArgs.id, r>>] = "missing"
        /\ SitesOf(callArgs.doc) \cap DOMAIN nginx = {}
        /\ \A e \in logs : e[1] # callArgs.id

(***************************************************************************)
(* NginxManager.obtainSSLCertificate observed on its own: the commands it  *)
(* issues and the host it leaves.                                          *)
(***************************************************************************)
\* How `systemctl stop nginx`, certbot, `systemctl start nginx` and the
\* `systemctl start nginx` of the catch block end if they are run
CertRuns ==
    [stop : CommandEnds, certbot : CertbotEnds, start : CommandEnds,
     recover : CommandEnds]

ObtainSSLCommands_noRecover(run) ==
    IF run.stop = "unreachable" THEN <<"stop">>
    ELSE IF run.certbot = "unreachable" THEN <<"stop", "certbot">>
    ELSE <<"stop", "certbot", "start">>

\* The commands obtainSSLCertificate hands to executeCommand, in order: the
\* try block up to the command that throws, then the start of the catch
\* block
ObtainSSLCommands(run) ==
    IF run.stop = "unreachable" THEN <<"stop", "start">>
    ELSE IF run.certbot = "unreachable" THEN <<"stop", "certbot", "start">>
    ELSE IF run.start = "unreachable"
    THEN <<"stop", "certbot", "start", "start">>
    ELSE <<"stop", "certbot", "start">>

InitCert ==
    /\ EmptyBackend
    /\ clawdBotImpl = "current"
    /\ requests = [d \in DepIds |-> NoRequest]
    /\ roleCall = NoRoleCall
    /\ roleResult = NoRoleResult
    /\ \E run \in CertRuns :
          callArgs = [fn |-> "obtainSSLCertificate", run |-> run]
    /\ callResult = NoCallResult
    /\ IdleChannel

RunObtainSSLCertificate ==
    /\ callArgs.fn = "obtainSSLCertificate"
    /\ callResult = NoCallResult
    /\ \E r \in {ObtainSSLCertificate(callArgs.run, FreshHost)} :
          callResult' = [fn |-> "obtainSSLCertificate", ret |-> r[1],
                         host |-> r[2],
                         issued |-> ObtainSSLCommands(callArgs.run)]
    /\ UNCHANGED <<lifecycleVars, deployVars, roleVars, callArgs, channelVars>>

NextCert == RunObtainSSLCertificate

SpecCert == InitCert /\ [][NextCert]_vars

QuotaIds == 1..(1 + MaxRequests)

QuotaRequestIds == QuotaIds \ {1}

InitQuota ==
    /\ now = 0
    /\ users = InitialUsers
    /\ subscriptions = InitialSubscriptions
    /\ clawdBotImpl = "earlier"
    /\ \E owner \in Users :
          deployments = [d \in {1} |-> FirstRecord(clawdBotImpl, owner)]
    /\ pm2 = [h \in Handles |->
                IF h = <<1, "frontend">> THEN "online" ELSE "missing"]
    /\ nginx = InitialSites(deployments)
    /\ logs = FirstLogs(clawdBotImpl)
    /\ channelUp = TRUE
    /\ strictQuery = TRUE
    /\ sentDeadline = [d \in DepIds |-> NoDate]
    /\ lastCall = NoCall
    /\ sweepLog = NoSweep
    /\ requests = [d \in QuotaIds |-> IF d = 1 THEN Done("none", NoSubdomain)
                                       ELSE NoRequest]
    /\ roleCall = NoRoleCall
    /\ roleResult = NoRoleResult
    /\ callArgs = NoCallArgs
    /\ callResult = NoCallResult
    /\ IdleChannel

\* deploy() from the stored record to its end: step 8 stores deployed or
\* failed, or a step throws and the catch block rethrows (the HTTP route's
\* .catch then stores failed, the WebSocket handler stores nothing).
RestOfDeploy(d) ==
    /\ requests[d].pc = "ports"
    /\ \E ending \in {"deployed", "failed", "threw"} :
          /\ deployments' =
                IF ending = "threw"
                THEN DeployThrew(deployments, requests[d].entry, d)
                ELSE UpdateStatus(deployments, d, ending)
          /\ requests' = [requests EXCEPT ![d] =
                Done(IF ending = "threw" THEN "deploy threw" ELSE "none",
                     NoSubdomain)]
    /\ UNCHANGED <<now, users, subscriptions, pm2, channelUp, strictQuery,
                   sentDeadline, lastCall, sweepLog, nginx, logs,
                   clawdBotImpl, callVars>>

NextQuota ==
    \/ \E d \in QuotaRequestIds, u \in Users, entry \in Entries :
          ReceiveDeploy(d, u, entry)
    \/ \E d \in QuotaRequestIds : CreateRecord(d)
    \/ \E d \in QuotaRequestIds : RestOfDeploy(d)

SpecQuota == InitQuota /\ [][NextQuota]_vars

\* User.getDeploymentCount(userId)
GetDeploymentCount(deps, u) ==
    Cardinality({d \in DOMAIN deps :
                    deps[d].user_id = u /\ deps[d].status # "failed"})

\* C40: for every user, in every reachable state, the number of the user's
\* deployments whose status is not failed is at most the user's
\* max_deployments, whatever the interleaving of the user's concurrent
\* requests through the HTTP route and the WebSocket entry point.
C40_CountWithinMaxDeployments ==
    \A u \in Users :
        GetDeploymentCount(deployments, u) <= users[u].max_deployments

====
